---- MODULE Spec2Model ----
(***************************************************************************)
(* Grimrold: the conversation orchestrator (core/grimoire.js, class        *)
(* Grimoire) as a state machine.  One action per method; an async method   *)
(* is cut at its awaits, so that other calls may run between its steps.    *)
(* Strings are modelled as sequences of tokens: '' is <<>>, template       *)
(* literals are concatenations.                                            *)
(*                                                                         *)
(* The async utilities (createSemaphore, withRetry, parallelLimit,         *)
(* throttle, debounce) are closures with a state of their own; each is     *)
(* modelled by one record variable whose fields are the closure's          *)
(* variables, and is exercised by a specification of its own.              *)
(***************************************************************************)
EXTENDS Integers, Sequences, FiniteSets, TLC

\* ---------------------------------------------------------------- bounds
MaxConvs == 2       \* conversation objects ever allocated
MaxCalls == 2       \* processMessage / askGrimoire calls ever made
MaxTicks == 1       \* clock advances
MaxSlots == 2       \* largest maxConcurrent a semaphore is created with
MaxRuns == 3        \* semaphore.run calls
MaxAttempts == 3    \* largest maxRetries withRetry is called with
MaxTasks == 3       \* longest task list parallelLimit is called with
MaxLimit == 3       \* largest concurrency parallelLimit is called with
MaxThrottled == 3   \* calls of a throttled function
MaxDebounced == 3   \* calls of a debounced function
MaxTime == 3        \* how far the timers' clock runs
MaxInitialize == 2  \* Grimoire.initialize calls
MaxShutdowns == 1   \* Grimoire.shutdown calls
MaxInitCalls == 3   \* calls that reach ModelManager.initializeModels
MaxHttpRetries == 3 \* largest maxRetries requestWithRetry is called with

\* ------------------------------------------------------- program constants
\* cleanupOldConversations(maxAgeHours = 24)
DefaultMaxAgeHours == 24

\* The clock advances in steps that take a fresh conversation past the
\* default age threshold.
TickHours == DefaultMaxAgeHours + 1

None == "<none>"

\* process.env.DEFAULT_MODEL || 'default'
DefaultModel == "default"

\* Conversation ids: ids a client passes in options.conversationId, and the
\* pool uuidv4() draws from.
ClientIds == {"c1"}
UuidPool == {"u1"}
ConvIds == ClientIds \cup UuidPool

\* Caller identities (options.ipAddress).
Keys == {"ip1"}

\* The text of a user message.
UserTexts == {<<"hello">>}

\* What a remote provider's client hands back: a text ('' included) or an error.
BackendTexts == {<<"hi">>, <<>>}
NetworkError == <<"ECONNRESET">>
ValidationError == <<"400", "bad", "request">>
BackendErrors == {NetworkError, ValidationError}

\* The shouldRetry classification the retry wrapper would use.
IsTransient(e) == e = NetworkError

\* The registry behind modelManager.getModel: id -> descriptor.
ModelIds == {"default", "gpt", "gemini", "hf", "mistral"}
ModelTable ==
  [m \in ModelIds |->
     [id |-> m,
      provider |-> CASE m = "gpt" -> "openai"
                     [] m = "gemini" -> "google"
                     [] m = "hf" -> "huggingface"
                     [] m = "mistral" -> "local"
                     [] OTHER -> None]]

\* Model ids a caller may pass to createConversation (null, known, unknown).
ModelInputs == {None, "gpt", "mistral", "missing"}

\* modelManager.getModel(id): the descriptor, or throws 'Model not found'.
ModelKnown(id) == id \in ModelIds
getModel(id) == ModelTable[id]

VARIABLES
  conversations,  \* this.conversations: id -> object reference (0: no entry)
  heap,           \* the conversation objects, by reference
  calls,          \* the processMessage / askGrimoire calls, by call number
  outcome,        \* what the last step returned or threw to its caller, if anything
  clock,          \* Date.now(), in hours
  usedIds,        \* the ids of UuidPool that ever were keys of the store
  rateLimit,      \* this.rateLimit
  semaphore,      \* createSemaphore: maxConcurrent, running, queue, and the run calls
  retry,          \* withRetry: the locals of one call
  parallel,       \* parallelLimit: the locals of one call and its tasks
  throttled,      \* throttle: inThrottle, lastResult, waiting, and the calls
  debounced,      \* debounce: timeout, resolveFuncs, and the calls
  memoized,       \* memoize: cache, and the calls
  localModels,    \* LocalModelManager: models, processes, and the generateResponse calls
  limiter,        \* customLimiter: its RateLimiterMemory, and the requests it has seen
  lifecycle,      \* Grimoire.initialize / shutdown: cleanupInterval and the timers set
  modelManager,   \* ModelManager: initialized, initializationPromise, attempts and callers
  httpRequest     \* requestWithRetry: the locals of one call

grimoire == <<conversations, heap, calls, outcome, clock, usedIds, rateLimit>>

\* The state of the async utilities.
utils == <<semaphore, retry, parallel, throttled, debounced>>

\* The state of the caches, runners and limiters around the Grimoire.
services == <<memoized, localModels, limiter, lifecycle, modelManager, httpRequest>>

vars == <<grimoire, utils, services>>

\* ---------------------------------------------------------------- helpers
Has(id) == conversations[id] # 0

Stored == {conversations[c] : c \in ConvIds} \ {0}

InFlight(k) == calls[k].pc = "generating"

NoModel == [id |-> None, provider |-> None]

\* An object no reference leads to any more.
Collected == [id |-> None, model |-> NoModel, messages |-> <<>>,
              metadata |-> [ipAddress |-> None], updatedAt |-> 0, completed |-> 0]

\* The objects of h that the store st, a suspended call of cs or the caller
\* that was just handed `out` can still reach; the others are garbage.
Collect(h, st, cs, out) ==
  [o \in DOMAIN h |->
     IF \/ \E c \in ConvIds : st[c] = o
        \/ \E k \in DOMAIN cs : cs[k].pc = "generating" /\ cs[k].conv = o
        \/ out.conv = o
       THEN h[o] ELSE Collected]

\* Mutant of PushMessage: the push refreshes updatedAt of every conversation.
PushMessage_TouchAll(h, o, msg) ==
  [x \in DOMAIN h |->
     IF x = o THEN [h[x] EXCEPT !.messages = Append(@, msg), !.updatedAt = clock]
     ELSE IF h[x] = Collected THEN h[x] ELSE [h[x] EXCEPT !.updatedAt = clock]]

\* conversation.messages.push(msg); conversation.updatedAt = now
PushMessage(h, o, msg) ==
  [h EXCEPT ![o].messages = Append(@, msg), ![o].updatedAt = clock]

\* History: one more processMessage call on object o has settled.
CountSettled(h, o) == [h EXCEPT ![o].completed = @ + 1]

NoResult == [response |-> <<>>, conversationId |-> None, model |-> None,
             messageId |-> <<>>]

NoBackend == [ok |-> FALSE, val |-> <<>>, cause |-> <<>>]

NewCall(op, cid, text, key) ==
  [op |-> op, pc |-> "new", convId |-> cid, conv |-> 0, text |-> text, key |-> key,
   userMsg |-> <<>>, attempts |-> 0, existing |-> FALSE, created |-> 0, processed |-> 0]

\* A settled call keeps no locals.
Settled(c) == [NewCall(None, None, c.text, c.key) EXCEPT !.pc = "done"]

\* calls with call k set to c (k is an existing call or the next call number).
Put(k, c) == IF k > Len(calls) THEN Append(calls, c) ELSE [calls EXCEPT ![k] = c]

\* The step handed nothing to a caller (a call was suspended, a timer ran).
NoOutcome ==
  [op |-> None, k |-> 0, id |-> None, convId |-> None, conv |-> 0, userMsg |-> <<>>,
   attempts |-> 0, status |-> None, result |-> NoResult, error |-> <<>>,
   backend |-> NoBackend, removed |-> 0, list |-> <<>>,
   existing |-> FALSE, created |-> 0, processed |-> 0]

\* How call k settles: what it returns or throws, with the locals it had.
Settlement(k, c, status, result, error, backend) ==
  [NoOutcome EXCEPT !.op = c.op, !.k = k, !.convId = c.convId, !.conv = c.conv,
                    !.userMsg = c.userMsg, !.attempts = c.attempts, !.status = status,
                    !.result = result, !.error = error, !.backend = backend,
                    !.existing = c.existing, !.created = c.created,
                    !.processed = c.processed]

\* What cleanupOldConversations returns: removedCount.
Swept(removedCount) ==
  [NoOutcome EXCEPT !.op = "cleanupOldConversations", !.status = "returned",
                    !.removed = removedCount]

\* What listConversations returns: an array of conversation objects.
Listed(list) ==
  [NoOutcome EXCEPT !.op = "listConversations", !.status = "returned", !.list = list]

\* How createConversation settles.
Created(status, cid) ==
  [NoOutcome EXCEPT !.op = "createConversation", !.status = status, !.id = cid]

\* --------------------------------------------------------- createSemaphore
\* A run call that has not been made yet.
IdleRun ==
  [pc |-> "idle", queued |-> FALSE, started |-> FALSE, releases |-> 0, result |-> None]

\* createSemaphore(maxConcurrent): running = 0, queue = [].
createSemaphore(m) ==
  [maxConcurrent |-> m, running |-> 0, queue |-> <<>>,
   runs |-> [t \in 1..MaxRuns |-> IdleRun]]

SemaphoreIdle == semaphore = createSemaphore(1)

\* ---------------------------------------------------------------- withRetry
\* withRetry has not been called.
NoRetry ==
  [pc |-> "idle", maxRetries |-> 0, initialDelay |-> 0, shouldRetry |-> None,
   attempt |-> 0, lastError |-> None, result |-> None, log |-> <<>>, delays |-> <<>>]

RetryIdle == retry = NoRetry

\* ------------------------------------------------------------ parallelLimit
\* parallelLimit has not been called.  task[i] is where task i and its
\* promises p and e stand; order is the order in which the tasks settled.
NoParallel ==
  [pc |-> "idle", n |-> 0, concurrency |-> 0, index |-> 1,
   task |-> [i \in 1..MaxTasks |-> "unscheduled"],
   runs |-> [i \in 1..MaxTasks |-> 0],
   results |-> <<>>, executing |-> <<>>, race |-> None,
   order |-> <<>>, value |-> <<>>]

ParallelIdle == parallel = NoParallel
\* ----------------------------------------------------------------- throttle
\* A call of the throttled function that has not been made yet.
IdleCall == [pc |-> "idle", value |-> <<>>, settled |-> 0]

\* throttle(func, limit): inThrottle = false, lastResult undefined,
\* waiting = [].  timer is the deadline of the armed setTimeout (-1: none);
\* completed and completedAt are the outcome and the time of the last
\* invocation of func that has completed.
throttle(limit) ==
  [limit |-> limit, inThrottle |-> FALSE, lastResult |-> <<>>, waiting |-> <<>>,
   timer |-> -1, now |-> 0, completed |-> <<>>, completedAt |-> -1,
   call |-> [c \in 1..MaxThrottled |-> IdleCall]]

\* The values of limit, in clock ticks.
Limits == {1, 2}

ThrottleIdle == throttled = throttle(1)
\* ----------------------------------------------------------------- debounce
\* The `later` closure of a call: its timer (armed, cleared, fired), and once
\* it runs its currentResolveFuncs and the time it invoked func.
NoLater == [pc |-> "none", deadline |-> -1, current |-> <<>>, startedAt |-> -1]

\* A call of the debounced function that has not been made yet.
IdleDebounced == [pc |-> "idle", value |-> <<>>, settled |-> 0, at |-> -1]

\* debounce(func, wait): timeout undefined (0), resolveFuncs = [].
debounce(wait) ==
  [wait |-> wait, timeout |-> 0, resolveFuncs |-> <<>>, now |-> 0,
   call |-> [c \in 1..MaxDebounced |-> IdleDebounced],
   later |-> [c \in 1..MaxDebounced |-> NoLater]]

\* The values of wait, in clock ticks.
Waits == {1, 2}

DebounceIdle == debounced = debounce(1)

\* No utility is in use.
UtilsIdle == SemaphoreIdle /\ RetryIdle /\ ParallelIdle /\ ThrottleIdle /\ DebounceIdle

\* ---------------------------------------------------------------- memoize
\* The memoized calls made, and the keys the resolver gives them.
MaxMemoized == 3
MemoKeys == {"a", "b"}

\* What func resolves with: it need not give the same value twice.
MemoValues == {<<"value", 1>>, <<"value", 2>>}
MemoError == <<"error", 1>>

IdleMemo ==
  [pc |-> "idle", key |-> "", invoked |-> FALSE, value |-> <<>>,
   at |-> 0, done |-> 0]

\* memoize(func, resolver): an empty cache (<<>>: no entry).  now, at and done
\* order the calls and their settlements.
memoize ==
  [cache |-> [k \in MemoKeys |-> <<>>], now |-> 0,
   call |-> [c \in 1..MaxMemoized |-> IdleMemo]]

MemoizeIdle == memoized = memoize

\* -------------------------------------------------------- local models
\* generateResponse calls made on a LocalModelManager.
MaxGenerations == 2

\* The two managers of local models the repository holds.
Managers == {"localModels", "local-model-manager"}

\* modelConfigs / this.models: the models a manager is written for, those
\* whose binary and model file are on disk, and the ids a caller may pass.
LocalModelIds == {"deepseek-coder", "mistral"}
InstalledModels == {"mistral"}
RequestedModels == LocalModelIds \cup {"unknown"}

\* localModels.js registers a model when its file is present or was
\* downloaded; local-model-manager.js holds every configured model and checks
\* the files on each request.
RegisteredModels(manager) ==
  IF manager = "localModels" THEN InstalledModels ELSE LocalModelIds

\* The key runModel tracks a process under: model.id, which no registered
\* model object has.
ProcessKey(modelId) == "undefined"
ProcessKeys == {ProcessKey(m) : m \in LocalModelIds}

\* Text is a sequence of characters, a process writes a sequence of bytes.
\* The two bytes C3 A9 encode one character.
Delimiter == <<"a", "s", "s", "i", "s", "t", "a", "n", "t", ":">>
Whitespace == {" ", "\n"}
Replacement == "U+FFFD"

\* What a model process may write to its standard output.
Stdouts ==
  {<<"h", "i", " ">>,
   Delimiter \o <<" ", "C3", "A9">>,
   Delimiter \o <<"a", " ">> \o Delimiter \o <<" ", "b", "\n">>}

\* What it may write to its standard error.
StderrText == <<"o", "o", "m">>

\* The sizes of the chunks a pipe hands over (the last one may be shorter).
ChunkSizes == {6, 12}

ExitCodes == {"0", "1"}

\* data.toString(): the bytes of one chunk decoded as UTF-8; a lead byte
\* without its continuation, and a continuation byte alone, become U+FFFD.
RECURSIVE toString(_)
toString(data) ==
  IF data = <<>> THEN <<>>
  ELSE IF Head(data) = "C3" /\ Len(data) >= 2 /\ data[2] = "A9"
       THEN <<"U+00E9">> \o toString(SubSeq(data, 3, Len(data)))
  ELSE IF Head(data) \in {"C3", "A9"}
       THEN <<Replacement>> \o toString(Tail(data))
  ELSE <<Head(data)>> \o toString(Tail(data))

\* The positions at which the delimiter occurs in a text.
Occurrences(text) ==
  {i \in 1..(Len(text) - Len(Delimiter) + 1) :
     SubSeq(text, i, i + Len(Delimiter) - 1) = Delimiter}

Min(S) == CHOOSE x \in S : \A y \in S : x <= y
Max(S) == CHOOSE x \in S : \A y \in S : x >= y

\* output.split('assistant:').pop(): the text is cut at each occurrence found
\* scanning from the left, and the last piece is taken.
RECURSIVE SplitPop(_)
SplitPop(text) ==
  IF Occurrences(text) = {} THEN text
  ELSE SplitPop(SubSeq(text, Min(Occurrences(text)) + Len(Delimiter), Len(text)))

\* String.prototype.trim
RECURSIVE trim(_)
trim(text) ==
  IF text = <<>> THEN <<>>
  ELSE IF Head(text) \in Whitespace THEN trim(Tail(text))
  ELSE IF text[Len(text)] \in Whitespace THEN trim(SubSeq(text, 1, Len(text) - 1))
  ELSE text

\* Mutant of ExtractReply: the piece after the first occurrence is taken.
ExtractReply_AfterFirst(manager, output) ==
  IF manager = "localModels" /\ Occurrences(output) # {}
  THEN trim(SubSeq(output, Min(Occurrences(output)) + Len(Delimiter), Len(output)))
  ELSE trim(output)

\* What the close handler resolves with on exit code 0.
\* localModels.js: output.split('assistant:').pop().trim()
\* local-model-manager.js: output.trim()
ExtractReply(manager, output) ==
  IF manager = "localModels" THEN trim(SplitPop(output)) ELSE trim(output)

\* One generateResponse call: the promise the manager returns (pc, value), the
\* promise its caller awaits (call, callValue; they differ when the call is
\* wrapped in withTimeout), and the process spawned for it.
IdleGeneration ==
  [pc |-> "idle", value |-> <<>>, settles |-> 0,
   model |-> "", timed |-> FALSE, call |-> "idle", callValue |-> <<>>,
   proc |-> "none", signalled |-> FALSE, code |-> "",
   stdout |-> <<>>, sent |-> 0, chunks |-> <<>>, output |-> <<>>,
   stderr |-> <<>>, errorOutput |-> <<>>]

\* new LocalModelManager(), once its models are set up.
LocalModelManager(manager) ==
  [manager |-> manager,
   models |-> RegisteredModels(manager),
   processes |-> [k \in ProcessKeys |-> 0],
   run |-> [r \in 1..MaxGenerations |-> IdleGeneration]]

LocalModelsIdle == localModels = LocalModelManager("localModels")

\* ---------------------------------------------------------- customLimiter
\* Requests the middleware sees, and how far its clock runs (in seconds).
MaxRequests == 4
MaxSeconds == 4

\* req.user ? `${req.ip}:${req.user.userId}` : req.ip
LimiterKeys == {"ip1", "ip1:u1"}

\* The options a limiter is made with.
PointsOptions == {1, 2}
DurationOptions == {1, 2}
BlockDurationOptions == {1, 3}

\* A key the storage has no record of.
NoRecord == [value |-> 0, expiresAt |-> 0]

\* customLimiter(options): new RateLimiterMemory({points, duration, blockDuration}).
customLimiter(points, duration, blockDuration) ==
  [points |-> points, duration |-> duration, blockDuration |-> blockDuration,
   now |-> 0, storage |-> [k \in LimiterKeys |-> NoRecord], log |-> <<>>]

LimiterIdle == limiter = customLimiter(1, 1, 1)

\* ------------------------------------------------- initialize / shutdown
\* A Grimoire as constructed: cleanupInterval is undefined (0) and no timer
\* is set.  timers are the intervals setInterval has started and clearInterval
\* has not cleared, by handle; handles are numbered as they are created.
\* History: how many handles existed when shutdown last completed, and the
\* handle of the timer that fired last since then.
Constructed ==
  [cleanupInterval |-> 0, timers |-> {}, created |-> 0, shutdowns |-> 0,
   createdAtShutdown |-> 0, fired |-> 0]

LifecycleIdle == lifecycle = Constructed

\* ---------------------------------------------------------- ModelManager
\* constructor: initialized = false, initializationPromise = null (0), around
\* the local manager `local`.  History: the initialization attempts (the runs
\* of the async body) and the calls made, each with the promise it was given
\* (0: it returned at once).
ModelManager(local) ==
  [localModelManager |-> local, initialized |-> FALSE, initializationPromise |-> 0,
   attempts |-> <<>>, calls |-> <<>>]

ModelManagerIdle == modelManager = ModelManager("localModels")

\* ------------------------------------------------------ requestWithRetry
\* requestWithRetry has not been called.  History: the outcome of every
\* attempt and the waits made, in order.
NoRequest ==
  [pc |-> "idle", maxRetries |-> 0, retryDelay |-> 0, attempt |-> 0,
   lastError |-> <<>>, attempts |-> <<>>, waits |-> <<>>, result |-> <<>>]

HttpRequestIdle == httpRequest = NoRequest

\* The services outside the three above are not in use.
RestIdle == LifecycleIdle /\ ModelManagerIdle /\ HttpRequestIdle

\* No service is in use.
ServicesIdle == MemoizeIdle /\ LocalModelsIdle /\ LimiterIdle /\ RestIdle

\* ------------------------------------------------------------------- Init
GrimoireInit ==
  /\ conversations = [c \in ConvIds |-> 0]
  /\ heap = <<>>
  /\ calls = <<>>
  /\ outcome = NoOutcome
  /\ clock = 0
  /\ usedIds = {}
  /\ rateLimit = [windowMs |-> 60000, maxRequests |-> 100, store |-> {}]

Init == GrimoireInit /\ UtilsIdle /\ ServicesIdle

\* ----------------------------------------------------- createConversation
\* options.conversationId || uuidv4()
NewConversationId(optId) ==
  IF optId # None THEN optId
  ELSE CHOOSE u \in UuidPool \ usedIds : TRUE

\* Mutant of CreateEffect: the model id given is ignored.
CreateEffect_DefaultModel(modelId, optId, ip, cs, out) ==
  LET cid == NewConversationId(optId)
      conversation == [id |-> cid, model |-> getModel(DefaultModel),
                       messages |-> <<>>, metadata |-> [ipAddress |-> ip],
                       updatedAt |-> clock, completed |-> 0]
  IN /\ conversations' = [conversations EXCEPT ![cid] = Len(heap) + 1]
     /\ heap' = Collect(Append(heap, conversation), conversations', cs, out)
     /\ usedIds' = usedIds \cup ({cid} \cap UuidPool)

\* The body of createConversation; cs and out are calls and outcome after
\* the step.
CreateEffect(modelId, optId, ip, cs, out) ==
  LET cid == NewConversationId(optId)
      model == getModel(IF modelId # None THEN modelId ELSE DefaultModel)
      conversation == [id |-> cid, model |-> model, messages |-> <<>>,
                       metadata |-> [ipAddress |-> ip], updatedAt |-> clock,
                       completed |-> 0]
  IN /\ conversations' = [conversations EXCEPT ![cid] = Len(heap) + 1]
     /\ heap' = Collect(Append(heap, conversation), conversations', cs, out)
     /\ usedIds' = usedIds \cup ({cid} \cap UuidPool)

\* modelManager.getModel throws: nothing is stored.
CreateThrows(cs, out) ==
  /\ heap' = Collect(heap, conversations, cs, out)
  /\ UNCHANGED <<conversations, usedIds>>

CanCreate(optId) ==
  /\ Len(heap) < MaxConvs
  /\ optId = None => UuidPool \ usedIds # {}

CreateConversation(modelId, optId, ip) ==
  /\ CanCreate(optId)
  /\ IF modelId # None /\ ~ModelKnown(modelId)
       THEN /\ outcome' = Created("Model not found", None)
            /\ CreateThrows(calls, outcome')
       ELSE /\ outcome' = Created("ok", NewConversationId(optId))
            /\ CreateEffect(modelId, optId, ip, calls, outcome')
  /\ UNCHANGED <<calls, clock, rateLimit, utils, services>>

\* ------------------------------------------------------- processMessage
\* uuidv4() for a message: an id no other message has.  Call k pushes at most
\* one message of each kind, so the pair is as unique as the uuid.
MessageUuid(k, kind) == <<k, kind>>

UserMessage(k, text) ==
  [id |-> MessageUuid(k, "user"), role |-> "user", content |-> text, isError |-> FALSE,
   model |-> None, call |-> k]

AssistantMessage(k, response) ==
  [id |-> MessageUuid(k, "reply"), role |-> "assistant", content |-> response,
   isError |-> FALSE, model |-> heap[calls[k].conv].model.id, call |-> k]

\* content: `Error: ${error.message}`
ErrorMessage(k, message) ==
  [id |-> MessageUuid(k, "reply"), role |-> "system", content |-> <<"Error:">> \o message,
   isError |-> TRUE, model |-> None, call |-> k]

\* Mutant of ResultOf: messageId names the user message.
ResultOf_UserId(k, msg) ==
  [response |-> msg.content, conversationId |-> calls[k].convId,
   model |-> heap[calls[k].conv].model.id, messageId |-> calls[k].userMsg]

\* The object returned by processMessage.
ResultOf(k, msg) ==
  [response |-> msg.content, conversationId |-> calls[k].convId,
   model |-> heap[calls[k].conv].model.id, messageId |-> msg.id]

\* Mutant of NotFoundPath: an unknown id gets an empty conversation before
\* the error is thrown.
NotFoundPath_AutoCreate(k, c) ==
  /\ calls' = Put(k, Settled(c))
  /\ outcome' = Settlement(k, c, "threw", NoResult, <<"Conversation not found">>, NoBackend)
  /\ conversations' = [conversations EXCEPT ![c.convId] = Len(heap) + 1]
  /\ heap' = Collect(Append(heap, [Collected EXCEPT !.id = c.convId]),
                     conversations', calls', outcome')
  /\ UNCHANGED usedIds

\* if (!this.conversations.has(conversationId)) throw new Error('Conversation not found')
NotFoundPath(k, c) ==
  /\ calls' = Put(k, Settled(c))
  /\ outcome' = Settlement(k, c, "threw", NoResult, <<"Conversation not found">>, NoBackend)
  /\ heap' = Collect(heap, conversations, calls', outcome')
  /\ UNCHANGED <<conversations, usedIds>>

\* generateResponse dispatches on model.provider in the same synchronous run:
\* a remote provider's client is called once, the default branch calls none.
BackendCallsAtDispatch(model) ==
  IF model.provider \in {"openai", "google", "huggingface"} THEN 1 ELSE 0

\* The synchronous part of processMessage once the conversation is found: the
\* user message is pushed, generateResponse is entered and the call suspends.
EnterPath(k, c) ==
  LET o == conversations[c.convId]
  IN /\ calls' = Put(k, [c EXCEPT !.pc = "generating", !.conv = o,
                                  !.userMsg = MessageUuid(k, "user"),
                                  !.attempts = BackendCallsAtDispatch(heap[o].model)])
     /\ outcome' = NoOutcome
     /\ heap' = Collect(PushMessage(heap, o, UserMessage(k, c.text)),
                        conversations, calls', outcome')
     /\ UNCHANGED <<conversations, usedIds>>

\* processMessage up to its first await, as call number k.  History: the
\* call counts the processMessage invocations made on its behalf.
ProcessMessageBody(k, c) ==
  LET d == [c EXCEPT !.processed = @ + 1]
  IN IF Has(d.convId) THEN EnterPath(k, d) ELSE NotFoundPath(k, d)

ProcessMessage(cid, text, key) ==
  /\ Len(calls) < MaxCalls
  /\ ProcessMessageBody(Len(calls) + 1, NewCall("processMessage", cid, text, key))
  /\ UNCHANGED <<clock, rateLimit, utils, services>>

\* What the awaited generateWith* promise settles with, by provider.
\* openai: choices[0]?.message?.content || 'No response generated'
\* default: `Model "${model.id}" received: ${lastMessage.content}`
\* generateResponse rethrows an error as `Failed to generate response: ${error.message}`.
Outcomes(k) ==
  LET model == heap[calls[k].conv].model
      wrap(e) == [ok |-> FALSE, val |-> <<"Failed to generate response:">> \o e,
                  cause |-> e]
      text(t) == [ok |-> TRUE, val |-> t, cause |-> <<>>]
  IN CASE model.provider = "openai" ->
            {text(IF t = <<>> THEN <<"No response generated">> ELSE t) : t \in BackendTexts}
              \cup {wrap(e) : e \in BackendErrors}
       [] model.provider \in {"google", "huggingface"} ->
            {text(t) : t \in BackendTexts} \cup {wrap(e) : e \in BackendErrors}
       [] OTHER ->
            {text(<<"Model", model.id, "received:">> \o calls[k].text)}

\* The try branch after `await this.generateResponse(...)`.
FinishSuccess(k, out) ==
  LET msg == AssistantMessage(k, out.val)
  IN /\ calls' = Put(k, Settled(calls[k]))
     /\ outcome' = Settlement(k, calls[k], "returned", ResultOf(k, msg), <<>>, out)
     /\ heap' = Collect(CountSettled(PushMessage(heap, calls[k].conv, msg), calls[k].conv),
                        conversations, calls', outcome')

\* Mutant of FinishFailure: the error is rethrown without being recorded.
FinishFailure_NoRecord(k, out) ==
  /\ calls' = Put(k, Settled(calls[k]))
  /\ outcome' = Settlement(k, calls[k], "threw", NoResult, out.val, out)
  /\ heap' = Collect(CountSettled(heap, calls[k].conv), conversations, calls', outcome')

\* Mutant of FinishFailure: the error is recorded and swallowed; the call
\* returns the error message as its result.
FinishFailure_Swallow(k, out) ==
  LET msg == ErrorMessage(k, out.val)
  IN /\ calls' = Put(k, Settled(calls[k]))
     /\ outcome' = Settlement(k, calls[k], "returned", ResultOf(k, msg), <<>>, out)
     /\ heap' = Collect(CountSettled(PushMessage(heap, calls[k].conv, msg), calls[k].conv),
                        conversations, calls', outcome')

\* Mutant of FinishFailure: the catch branch never settles the call.
FinishFailure_Stuck(k, out) ==
  /\ calls' = Put(k, [calls[k] EXCEPT !.pc = "failed"])
  /\ outcome' = NoOutcome
  /\ heap' = Collect(heap, conversations, calls', outcome')

\* The catch branch: the error is recorded in the conversation and rethrown.
FinishFailure(k, out) ==
  LET msg == ErrorMessage(k, out.val)
  IN /\ calls' = Put(k, Settled(calls[k]))
     /\ outcome' = Settlement(k, calls[k], "threw", NoResult, out.val, out)
     /\ heap' = Collect(CountSettled(PushMessage(heap, calls[k].conv, msg), calls[k].conv),
                        conversations, calls', outcome')

\* The awaited generateResponse settles with one of its outcomes and
\* processMessage resumes in its try or its catch branch.
ProcessMessageResume(k) ==
  /\ k \in DOMAIN calls
  /\ calls[k].pc = "generating"
  /\ \E out \in Outcomes(k) :
       IF out.ok THEN FinishSuccess(k, out) ELSE FinishFailure(k, out)
  /\ UNCHANGED <<conversations, clock, usedIds, rateLimit, utils, services>>

\* ------------------------------------------------------------ askGrimoire
\* Mutant of UsesExisting: a stored conversation is never reused.
UsesExisting_Never(optId) == FALSE

\* options.conversationId && this.conversations.has(options.conversationId)
UsesExisting(optId) == optId # None /\ Has(optId)

\* options.conversationId names a stored conversation: processMessage runs in
\* the same synchronous run.  Otherwise createConversation is awaited first and
\* processMessage(conversation.id, ...) runs when askGrimoire resumes.
AskGrimoire(text, key, optId, modelId) ==
  LET k == Len(calls) + 1
      c == [NewCall("askGrimoire", optId, text, key)
              EXCEPT !.existing = (optId # None /\ Has(optId))]
  IN /\ Len(calls) < MaxCalls
     /\ IF UsesExisting(optId)
          THEN ProcessMessageBody(k, c)
          ELSE /\ CanCreate(optId)
               /\ IF modelId # None /\ ~ModelKnown(modelId)
                    THEN LET d == [c EXCEPT !.convId = None]
                         IN /\ calls' = Put(k, Settled(d))
                            /\ outcome' = Settlement(k, d, "threw", NoResult,
                                                     <<"Model not found">>, NoBackend)
                            /\ CreateThrows(calls', outcome')
                    ELSE /\ calls' = Put(k, [c EXCEPT !.convId = NewConversationId(optId),
                                                      !.pc = "created", !.created = 1])
                         /\ outcome' = NoOutcome
                         /\ CreateEffect(modelId, optId, key, calls', outcome')
     /\ UNCHANGED <<clock, rateLimit, utils, services>>

AskGrimoireResume(k) ==
  /\ k \in DOMAIN calls
  /\ calls[k].pc = "created"
  /\ ProcessMessageBody(k, calls[k])
  /\ UNCHANGED <<clock, rateLimit, utils, services>>

\* -------------------------------------------- cleanup / deleteConversation
\* Mutant of IsStale: a conversation exactly maxAgeHours old is stale too.
IsStale_AtThreshold(o, maxAgeHours) == clock - heap[o].updatedAt >= maxAgeHours

\* now - lastUpdated > maxAgeMs
IsStale(o, maxAgeHours) == clock - heap[o].updatedAt > maxAgeHours

\* The store after the loop of cleanupOldConversations.
AfterSweep(maxAgeHours) ==
  [c \in ConvIds |->
     IF Has(c) /\ IsStale(conversations[c], maxAgeHours) THEN 0 ELSE conversations[c]]

CleanupOldConversations(maxAgeHours) ==
  /\ conversations' = AfterSweep(maxAgeHours)
  /\ outcome' = Swept(Cardinality({c \in ConvIds :
                                     Has(c) /\ IsStale(conversations[c], maxAgeHours)}))
  /\ heap' = Collect(heap, conversations', calls, outcome')
  /\ UNCHANGED <<calls, clock, usedIds, rateLimit, utils, services>>

DeleteConversation(cid) ==
  /\ conversations' = [conversations EXCEPT ![cid] = 0]
  /\ outcome' = NoOutcome
  /\ heap' = Collect(heap, conversations', calls, outcome')
  /\ UNCHANGED <<calls, clock, usedIds, rateLimit, utils, services>>

\* maxAgeHours as passed by callers; the periodic sweep passes the default.
AgeInputs == {0, DefaultMaxAgeHours}

\* ------------------------------------------------------ listConversations
\* listConversations(limit = 50)
DefaultLimit == 50

\* limit as passed by callers: a count (the pagination schema admits integers
\* from 1 to 100).
LimitInputs == {0, 1, DefaultLimit}

\* Mutant of byRecency: the comparator's operands are swapped.
byRecency_OldestFirst(a, b) == heap[a].updatedAt - heap[b].updatedAt

\* (a, b) => new Date(b.updatedAt) - new Date(a.updatedAt); updatedAt is an
\* ISO string of a millisecond timestamp, which new Date reads back exactly.
byRecency(a, b) == heap[b].updatedAt - heap[a].updatedAt

\* Array.from(values()).sort(cmp): the arrangements of the stored objects in
\* which no object follows one the comparator puts after it.  The sort is
\* stable, so ties keep the Map's insertion order; the model admits every
\* order of the tied objects.
sort(S) ==
  {s \in [1..Cardinality(S) -> S] :
     /\ \A i, j \in 1..Cardinality(S) : i # j => s[i] # s[j]
     /\ \A i, j \in 1..Cardinality(S) : i < j => byRecency(s[i], s[j]) <= 0}

\* array.slice(0, limit), for a count limit
slice(s, limit) == SubSeq(s, 1, IF limit < Len(s) THEN limit ELSE Len(s))

ListConversations(limit) ==
  /\ \E s \in sort(Stored) : outcome' = Listed(slice(s, limit))
  /\ heap' = Collect(heap, conversations, calls, outcome')
  /\ UNCHANGED <<conversations, calls, clock, usedIds, rateLimit, utils, services>>

\* ---------------------------------------------------------- Tick (clock)
Tick ==
  /\ clock < MaxTicks * TickHours
  /\ clock' = clock + TickHours
  /\ outcome' = NoOutcome
  /\ heap' = Collect(heap, conversations, calls, outcome')
  /\ UNCHANGED <<conversations, calls, usedIds, rateLimit, utils, services>>

Next ==
  \/ \E m \in ModelInputs, o \in ConvIds \cup {None}, ip \in Keys :
       CreateConversation(m, o, ip)
  \/ \E c \in ConvIds, t \in UserTexts, key \in Keys : ProcessMessage(c, t, key)
  \/ \E k \in 1..MaxCalls : ProcessMessageResume(k)
  \/ \E t \in UserTexts, key \in Keys, o \in ConvIds \cup {None}, m \in ModelInputs :
       AskGrimoire(t, key, o, m)
  \/ \E k \in 1..MaxCalls : AskGrimoireResume(k)
  \/ \E a \in AgeInputs : CleanupOldConversations(a)
  \/ \E c \in ConvIds : DeleteConversation(c)
  \/ Tick

Spec == Init /\ [][Next]_vars

\* The store as listConversations sees it: conversations of the default model
\* are created, written to, deleted and aged, and listed in between.
ListNext ==
  \/ \E o \in ConvIds \cup {None}, ip \in Keys : CreateConversation(None, o, ip)
  \/ \E c \in ConvIds, t \in UserTexts, key \in Keys : ProcessMessage(c, t, key)
  \/ \E k \in 1..MaxCalls : ProcessMessageResume(k)
  \/ \E c \in ConvIds : DeleteConversation(c)
  \/ \E l \in LimitInputs : ListConversations(l)
  \/ Tick

ListSpec == Init /\ [][ListNext]_vars

\* The continuation of a suspended call runs once its backend call has
\* settled; a backend call that terminates is a weakly fair resume.
FairSpec == Spec /\ \A k \in 1..MaxCalls : WF_vars(ProcessMessageResume(k))

\* =========================================================== semaphore
\* acquire(), called by run call t: takes a slot if one is free, else queues
\* its resolve.
acquire_NoLimit(sem, t) ==
  [sem EXCEPT !.running = @ + 1, !.runs[t].pc = "admitted"]

acquire(sem, t) ==
  IF sem.running < sem.maxConcurrent
  THEN [sem EXCEPT !.running = @ + 1, !.runs[t].pc = "admitted"]
  ELSE [sem EXCEPT !.queue = Append(@, t), !.runs[t].pc = "waiting",
                   !.runs[t].queued = TRUE]

\* Mutant of release: the slot goes to the caller that queued last.
release_NewestFirst(sem) ==
  LET freed == [sem EXCEPT !.running = @ - 1]
  IN IF Len(freed.queue) > 0 /\ freed.running < freed.maxConcurrent
     THEN LET next == freed.queue[Len(freed.queue)]
          IN [freed EXCEPT !.queue = SubSeq(@, 1, Len(@) - 1), !.running = @ + 1,
                           !.runs[next].pc = "admitted"]
     ELSE freed

\* release(): gives the slot back and hands it to the head of the queue.
release(sem) ==
  LET freed == [sem EXCEPT !.running = @ - 1]
  IN IF Len(freed.queue) > 0 /\ freed.running < freed.maxConcurrent
     THEN LET next == Head(freed.queue)
          IN [freed EXCEPT !.queue = Tail(@), !.running = @ + 1,
                           !.runs[next].pc = "admitted"]
     ELSE freed

\* The finally block of run: release(), then run settles as fn did.
Finally_OnSuccessOnly(sem, t) ==
  IF sem.runs[t].result = "error"
  THEN [sem EXCEPT !.runs[t].pc = "done"]
  ELSE [release(sem) EXCEPT !.runs[t].pc = "done", !.runs[t].releases = @ + 1]

Finally(sem, t) ==
  [release(sem) EXCEPT !.runs[t].pc = "done", !.runs[t].releases = @ + 1]

outsideSemaphore == <<grimoire, retry, parallel, throttled, debounced, services>>

\* run(fn) is called: await acquire().
Run(t) ==
  /\ semaphore.runs[t].pc = "idle"
  /\ semaphore' = acquire(semaphore, t)
  /\ UNCHANGED outsideSemaphore

\* What fn() does when it is called: it returns a promise, or throws.
FnCalls == {"promise", "throws"}

\* The continuation of await acquire(): fn() is called inside the try.
TaskStart(t, how) ==
  /\ semaphore.runs[t].pc = "admitted"
  /\ semaphore' =
       IF how = "throws"
       THEN Finally([semaphore EXCEPT !.runs[t].started = TRUE,
                                      !.runs[t].result = "error"], t)
       ELSE [semaphore EXCEPT !.runs[t].pc = "executing", !.runs[t].started = TRUE]
  /\ UNCHANGED outsideSemaphore

\* How the promise fn() returned settles.
FnResults == {"value", "error"}

\* fn's promise settles.
TaskSettle(t, r) ==
  /\ semaphore.runs[t].pc = "executing"
  /\ semaphore' = [semaphore EXCEPT !.runs[t].pc = "settled", !.runs[t].result = r]
  /\ UNCHANGED outsideSemaphore

\* The continuation of await fn(): the finally block.
RunFinally(t) ==
  /\ semaphore.runs[t].pc = "settled"
  /\ semaphore' = Finally(semaphore, t)
  /\ UNCHANGED outsideSemaphore

SemInit ==
  /\ GrimoireInit /\ ServicesIdle
  /\ \E m \in 1..MaxSlots : semaphore = createSemaphore(m)
  /\ RetryIdle /\ ParallelIdle /\ ThrottleIdle /\ DebounceIdle

SemNext ==
  \/ \E t \in 1..MaxRuns : Run(t)
  \/ \E t \in 1..MaxRuns, how \in FnCalls : TaskStart(t, how)
  \/ \E t \in 1..MaxRuns, r \in FnResults : TaskSettle(t, r)
  \/ \E t \in 1..MaxRuns : RunFinally(t)

SemSpec == SemInit /\ [][SemNext]_vars

\* Continuations run, and every admitted task terminates.
SemFairSpec ==
  /\ SemSpec
  /\ \A t \in 1..MaxRuns :
       /\ WF_vars(\E how \in FnCalls : TaskStart(t, how))
       /\ WF_vars(\E r \in FnResults : TaskSettle(t, r))
       /\ WF_vars(RunFinally(t))

\* =========================================================== withRetry
\* The values of shouldRetry: the default () => true, () => false, and the
\* classification by error kind.
RetryPolicies == {"always", "never", "transient"}

ShouldRetry(policy, e) ==
  CASE policy = "always" -> TRUE
    [] policy = "never" -> FALSE
    [] OTHER -> IsTransient(e)

\* initialDelay, in ms: the value of the spec's example and the default.
DefaultInitialDelay == 1000
InitialDelays == {100, DefaultInitialDelay}

\* Math.random() * 1000, in ms: a value of [0, 1000).
JitterRange == 1000
Jitters == {0, 500, JitterRange - 1}

\* What one invocation of asyncFunc comes to.
TaskValue == <<"v">>
TaskOutcomes ==
  {[ok |-> TRUE, val |-> TaskValue]} \cup {[ok |-> FALSE, val |-> e] : e \in BackendErrors}

\* initialDelay * Math.pow(2, attempt - 1)
Backoff_Constant(initialDelay, attempt) == initialDelay
Backoff_NextAttempt(initialDelay, attempt) == initialDelay * 2 ^ attempt

Backoff(initialDelay, attempt) == initialDelay * 2 ^ (attempt - 1)

\* !shouldRetry(error) || attempt === maxRetries
GivesUp_IgnoresPolicy(r, e) == r.attempt = r.maxRetries

GivesUp(r, e) == ~ShouldRetry(r.shouldRetry, e) \/ r.attempt = r.maxRetries

outsideRetry == <<grimoire, semaphore, parallel, throttled, debounced, services>>

\* withRetry(asyncFunc, maxRetries, initialDelay, shouldRetry) is called: the
\* loop starts at attempt 1 and invokes asyncFunc, or falls through to the
\* throw when maxRetries < 1.
WithRetry(maxRetries, initialDelay, policy) ==
  /\ retry.pc = "idle"
  /\ retry' = [NoRetry EXCEPT !.maxRetries = maxRetries,
                              !.initialDelay = initialDelay,
                              !.shouldRetry = policy,
                              !.attempt = 1,
                              !.pc = IF 1 <= maxRetries THEN "invoking" ELSE "thrown"]
  /\ UNCHANGED outsideRetry

\* The invocation settles: return its value, or record the error and either
\* break and throw lastError or arm the timer of delay + jitter.
AttemptSettle(out, jitter) ==
  /\ retry.pc = "invoking"
  /\ LET logged == [retry EXCEPT !.log = Append(@, out)]
     IN retry' =
          IF out.ok
          THEN [logged EXCEPT !.pc = "returned", !.result = out.val]
          ELSE IF GivesUp(retry, out.val)
          THEN [logged EXCEPT !.pc = "thrown", !.lastError = out.val]
          ELSE [logged EXCEPT
                  !.pc = "sleeping", !.lastError = out.val,
                  !.delays = Append(@, Backoff(retry.initialDelay, retry.attempt) + jitter)]
  /\ UNCHANGED outsideRetry

\* The timer fires: attempt++, the loop condition holds, asyncFunc is invoked.
RetryTimerFires ==
  /\ retry.pc = "sleeping"
  /\ retry' = [retry EXCEPT !.attempt = @ + 1,
                            !.pc = IF retry.attempt + 1 <= retry.maxRetries
                                   THEN "invoking" ELSE "thrown"]
  /\ UNCHANGED outsideRetry

RetryInit ==
  /\ GrimoireInit /\ ServicesIdle
  /\ SemaphoreIdle /\ RetryIdle /\ ParallelIdle /\ ThrottleIdle /\ DebounceIdle

RetryNext ==
  \/ \E n \in 0..MaxAttempts, d \in InitialDelays, p \in RetryPolicies : WithRetry(n, d, p)
  \/ \E out \in TaskOutcomes, j \in Jitters : AttemptSettle(out, j)
  \/ RetryTimerFires

RetrySpec == RetryInit /\ [][RetryNext]_vars

\* ======================================================== parallelLimit
\* The value task i resolves with.
ValueOf(i) == <<"result", i>>

Without(seq, x) == SelectSeq(seq, LAMBDA y : y # x)

\* if (executing.length >= concurrency) await Promise.race(executing)
MustAwait_OffByOne(par) == Len(par.executing) > par.concurrency

MustAwait(par) == Len(par.executing) >= par.concurrency

\* Promise.race(executing) over promises of which one has rejected already
\* rejects; otherwise it is pending.
RaceOf(par) ==
  IF \E i \in 1..Len(par.executing) : par.task[par.executing[i]] = "e-rejected"
  THEN "rejected" ELSE "pending"

\* The for loop from par.index on, up to its next await or to the return:
\* p is scheduled and stored in results[index]; with concurrency <=
\* tasks.length, e is pushed on executing and the loop awaits the race once
\* executing.length >= concurrency.
RECURSIVE Iterate(_)
Iterate(par) ==
  IF par.index > par.n
  THEN [par EXCEPT !.pc = "all"]
  ELSE LET i == par.index
           scheduled == [par EXCEPT !.task[i] = "scheduled",
                                    !.results = Append(@, i),
                                    !.index = i + 1]
       IN IF par.concurrency <= par.n
          THEN LET pushed == [scheduled EXCEPT !.executing = Append(@, i)]
               IN IF MustAwait(pushed)
                  THEN [pushed EXCEPT !.pc = "race", !.race = RaceOf(pushed)]
                  ELSE Iterate(pushed)
          ELSE Iterate(scheduled)

outsideParallel == <<grimoire, semaphore, retry, throttled, debounced, services>>

\* parallelLimit(tasks, concurrency) is called with n tasks.
ParallelLimit(n, concurrency) ==
  /\ parallel.pc = "idle"
  /\ parallel' = Iterate([NoParallel EXCEPT !.n = n, !.concurrency = concurrency,
                                            !.pc = "loop"])
  /\ UNCHANGED outsideParallel

\* Promise.resolve().then(() => task()): task i is called.
TaskBegin(i) ==
  /\ parallel.task[i] = "scheduled"
  /\ parallel' = [parallel EXCEPT !.task[i] = "running", !.runs[i] = @ + 1]
  /\ UNCHANGED outsideParallel

\* Task i settles, and p with it.
TaskEnd(i, ok) ==
  /\ parallel.task[i] = "running"
  /\ parallel' = [parallel EXCEPT !.task[i] = IF ok THEN "fulfilled" ELSE "rejected",
                                  !.order = Append(@, i)]
  /\ UNCHANGED outsideParallel

\* e = p.then(() => executing.splice(executing.indexOf(e), 1)): on
\* fulfilment e takes itself off executing and resolves, on rejection e
\* rejects and stays; a pending race settles with the first e that does.
Reaction(i) ==
  /\ parallel.task[i] \in {"fulfilled", "rejected"}
  /\ \E j \in 1..Len(parallel.executing) : parallel.executing[j] = i
  /\ LET ok == parallel.task[i] = "fulfilled"
     IN parallel' =
          [parallel EXCEPT
             !.task[i] = IF ok THEN "spliced" ELSE "e-rejected",
             !.executing = IF ok THEN Without(@, i) ELSE @,
             !.race = IF @ = "pending" THEN (IF ok THEN "resolved" ELSE "rejected")
                      ELSE @]
  /\ UNCHANGED outsideParallel

\* The continuation of await Promise.race(executing): the loop goes on, or
\* the rejection is thrown out of parallelLimit.
RaceWake ==
  /\ parallel.pc = "race"
  /\ parallel.race \in {"resolved", "rejected"}
  /\ parallel' =
       IF parallel.race = "resolved"
       THEN Iterate([parallel EXCEPT !.pc = "loop", !.race = None])
       ELSE [parallel EXCEPT !.pc = "rejected", !.race = None]
  /\ UNCHANGED outsideParallel

Fulfilled(par, i) == par.task[i] \in {"fulfilled", "spliced"}
Rejected(par, i) == par.task[i] \in {"rejected", "e-rejected"}

\* Promise.all(results): the values of the promises in the order of results.
PromiseAll_CompletionOrder(par) == [k \in 1..Len(par.order) |-> ValueOf(par.order[k])]

PromiseAll(par) == [k \in 1..Len(par.results) |-> ValueOf(par.results[k])]

\* return Promise.all(results) settles.
AllSettles ==
  /\ parallel.pc = "all"
  /\ \/ /\ \A i \in 1..parallel.n : Fulfilled(parallel, i)
        /\ parallel' = [parallel EXCEPT !.pc = "resolved", !.value = PromiseAll(parallel)]
     \/ /\ \E i \in 1..parallel.n : Rejected(parallel, i)
        /\ parallel' = [parallel EXCEPT !.pc = "rejected"]
  /\ UNCHANGED outsideParallel

ParInit ==
  /\ GrimoireInit /\ ServicesIdle
  /\ SemaphoreIdle /\ RetryIdle /\ ParallelIdle /\ ThrottleIdle /\ DebounceIdle

ParNext ==
  \/ \E n \in 0..MaxTasks, c \in 1..MaxLimit : ParallelLimit(n, c)
  \/ \E i \in 1..MaxTasks : TaskBegin(i)
  \/ \E i \in 1..MaxTasks, ok \in BOOLEAN : TaskEnd(i, ok)
  \/ \E i \in 1..MaxTasks : Reaction(i)
  \/ RaceWake
  \/ AllSettles

ParSpec == ParInit /\ [][ParNext]_vars

\* ============================================================= throttle
\* What the invocation of func made by call c comes to.
ResultOfCall(c) == <<"result", c>>
ErrorOfCall(c) == <<"error", c>>

\* Settle the promise of call c.
Resolve(th, c, v) ==
  [th EXCEPT !.call[c].pc = "resolved", !.call[c].value = v, !.call[c].settled = @ + 1]
Reject(th, c, e) ==
  [th EXCEPT !.call[c].pc = "rejected", !.call[c].value = e, !.call[c].settled = @ + 1]

\* queue.forEach(({ resolve: res }) => res(lastResult))
RECURSIVE ResolveAll(_, _, _)
ResolveAll(th, queue, v) ==
  IF queue = <<>> THEN th ELSE ResolveAll(Resolve(th, Head(queue), v), Tail(queue), v)

\* waiting.forEach(({ reject: rej }) => rej(error))
RECURSIVE RejectAll(_, _, _)
RejectAll(th, queue, e) ==
  IF queue = <<>> THEN th ELSE RejectAll(Reject(th, Head(queue), e), Tail(queue), e)

outsideThrottle == <<grimoire, semaphore, retry, parallel, debounced, services>>

\* The throttled function is called: process() queues the call while
\* inThrottle, else sets inThrottle and invokes func.
ThrottledCall(c) ==
  /\ throttled.call[c].pc = "idle"
  /\ throttled' =
       IF throttled.inThrottle
       THEN [throttled EXCEPT !.waiting = Append(@, c), !.call[c].pc = "queued"]
       ELSE [throttled EXCEPT !.inThrottle = TRUE, !.call[c].pc = "invoking"]
  /\ UNCHANGED outsideThrottle

\* await func(...args) settles.  Fulfilled: lastResult is set, the call is
\* resolved and the timer of `limit` is armed.  Rejected: the waiting calls
\* and the call are rejected; inThrottle is left as it is.
InvocationSettles(c, ok) ==
  /\ throttled.call[c].pc = "invoking"
  /\ throttled' =
       IF ok
       THEN [Resolve(throttled, c, ResultOfCall(c)) EXCEPT
               !.lastResult = ResultOfCall(c),
               !.timer = throttled.now + throttled.limit,
               !.completed = ResultOfCall(c),
               !.completedAt = throttled.now]
       ELSE [Reject(RejectAll(throttled, throttled.waiting, ErrorOfCall(c)),
                    c, ErrorOfCall(c)) EXCEPT
               !.waiting = <<>>,
               !.completed = ErrorOfCall(c),
               !.completedAt = throttled.now]
  /\ UNCHANGED outsideThrottle

\* The setTimeout callback: inThrottle = false, the queue is resolved with
\* lastResult.
ThrottleTimerFires ==
  /\ throttled.timer >= 0
  /\ throttled.now >= throttled.timer
  /\ throttled' =
       [ResolveAll(throttled, throttled.waiting, throttled.lastResult) EXCEPT
          !.inThrottle = FALSE, !.waiting = <<>>, !.timer = -1]
  /\ UNCHANGED outsideThrottle

\* Time passes.
ThrottleClock ==
  /\ throttled.now < MaxTime
  /\ throttled' = [throttled EXCEPT !.now = @ + 1]
  /\ UNCHANGED outsideThrottle

ThrInit ==
  /\ GrimoireInit /\ ServicesIdle
  /\ SemaphoreIdle /\ RetryIdle /\ ParallelIdle /\ DebounceIdle
  /\ \E l \in Limits : throttled = throttle(l)

ThrNext ==
  \/ \E c \in 1..MaxThrottled : ThrottledCall(c)
  \/ \E c \in 1..MaxThrottled, ok \in BOOLEAN : InvocationSettles(c, ok)
  \/ ThrottleTimerFires
  \/ ThrottleClock

ThrSpec == ThrInit /\ [][ThrNext]_vars

\* ============================================================= debounce
\* if (timeout) clearTimeout(timeout): the timer of the previous call, if it
\* has not fired, never will.
ClearTimeout_Forgotten(db) == db

ClearTimeout(db) ==
  IF db.timeout # 0 /\ db.later[db.timeout].pc = "armed"
  THEN [db EXCEPT !.later[db.timeout].pc = "cleared"]
  ELSE db

\* currentResolveFuncs.forEach(r => r(result)), or r(Promise.reject(error)).
RECURSIVE SettleAll(_, _, _, _)
SettleAll(db, callers, pc, v) ==
  IF callers = <<>> THEN db
  ELSE SettleAll([db EXCEPT !.call[Head(callers)].pc = pc,
                            !.call[Head(callers)].value = v,
                            !.call[Head(callers)].settled = @ + 1],
                 Tail(callers), pc, v)

outsideDebounce == <<grimoire, semaphore, retry, parallel, throttled, services>>

\* The debounced function is called (the calls are numbered as they are
\* made): the pending timer is cleared, resolve is pushed on resolveFuncs and
\* the timer of this call's `later` is armed.
DebouncedCall(c) ==
  /\ debounced.call[c].pc = "idle"
  /\ c > 1 => debounced.call[c - 1].pc # "idle"
  /\ debounced' =
       [ClearTimeout(debounced) EXCEPT
          !.resolveFuncs = Append(@, c),
          !.timeout = c,
          !.call[c].pc = "pending",
          !.call[c].at = debounced.now,
          !.later[c].pc = "armed",
          !.later[c].deadline = debounced.now + debounced.wait]
  /\ UNCHANGED outsideDebounce

\* The timer of call c fires: later() sets timeout = null, takes the
\* resolveFuncs and invokes func with the arguments of call c.
DebounceTimerFires(c) ==
  /\ debounced.later[c].pc = "armed"
  /\ debounced.now >= debounced.later[c].deadline
  /\ debounced' =
       [debounced EXCEPT
          !.timeout = 0,
          !.resolveFuncs = <<>>,
          !.later[c].pc = "running",
          !.later[c].current = debounced.resolveFuncs,
          !.later[c].startedAt = debounced.now]
  /\ UNCHANGED outsideDebounce

\* await func(...args) settles in later(): every resolve taken is called
\* with the result, or with a promise rejected with the error.
DebounceSettles(c, ok) ==
  /\ debounced.later[c].pc = "running"
  /\ debounced' =
       [SettleAll(debounced, debounced.later[c].current,
                  IF ok THEN "resolved" ELSE "rejected",
                  IF ok THEN ResultOfCall(c) ELSE ErrorOfCall(c))
        EXCEPT !.later[c].pc = "done"]
  /\ UNCHANGED outsideDebounce

\* Time passes, up to the next timer that is due.
DebounceClock ==
  /\ debounced.now < MaxTime
  /\ \A c \in 1..MaxDebounced :
       debounced.later[c].pc = "armed" => debounced.now < debounced.later[c].deadline
  /\ debounced' = [debounced EXCEPT !.now = @ + 1]
  /\ UNCHANGED outsideDebounce

DebInit ==
  /\ GrimoireInit /\ ServicesIdle
  /\ SemaphoreIdle /\ RetryIdle /\ ParallelIdle /\ ThrottleIdle
  /\ \E w \in Waits : debounced = debounce(w)

DebNext ==
  \/ \E c \in 1..MaxDebounced : DebouncedCall(c)
  \/ \E c \in 1..MaxDebounced : DebounceTimerFires(c)
  \/ \E c \in 1..MaxDebounced, ok \in BOOLEAN : DebounceSettles(c, ok)
  \/ DebounceClock

DebSpec == DebInit /\ [][DebNext]_vars

\* ---------------------------------------------------------------- memoize
\* catch (error) { throw error }: nothing is cached.
Caught_CachesError(mem, c) ==
  [mem EXCEPT !.cache[mem.call[c].key] = MemoError,
              !.call[c].pc = "thrown", !.call[c].value = MemoError,
              !.call[c].done = mem.now + 1, !.now = @ + 1]

Caught(mem, c) ==
  [mem EXCEPT !.call[c].pc = "thrown", !.call[c].value = MemoError,
              !.call[c].done = mem.now + 1, !.now = @ + 1]

outsideMemoize == <<grimoire, utils, localModels, limiter, lifecycle, modelManager, httpRequest>>

\* The memoized function is called with arguments of key k: a hit returns
\* cache.get(key), a miss calls func and awaits it.
MemoizedCall(c, k) ==
  /\ memoized.call[c].pc = "idle"
  /\ \A d \in 1..(c - 1) : memoized.call[d].pc # "idle"
  /\ memoized' =
       IF memoized.cache[k] # <<>>
       THEN [memoized EXCEPT !.call[c] = [pc |-> "returned", key |-> k,
                                          invoked |-> FALSE,
                                          value |-> memoized.cache[k],
                                          at |-> memoized.now + 1,
                                          done |-> memoized.now + 1],
                             !.now = @ + 1]
       ELSE [memoized EXCEPT !.call[c] = [pc |-> "awaiting", key |-> k,
                                          invoked |-> TRUE, value |-> <<>>,
                                          at |-> memoized.now + 1, done |-> 0],
                             !.now = @ + 1]
  /\ UNCHANGED outsideMemoize

\* func resolves: cache.set(key, result); return result.
FuncResolves(c, v) ==
  /\ memoized.call[c].pc = "awaiting"
  /\ memoized' = [memoized EXCEPT !.cache[memoized.call[c].key] = v,
                                  !.call[c].pc = "returned",
                                  !.call[c].value = v,
                                  !.call[c].done = memoized.now + 1,
                                  !.now = @ + 1]
  /\ UNCHANGED outsideMemoize

\* func rejects.
FuncRejects(c) ==
  /\ memoized.call[c].pc = "awaiting"
  /\ memoized' = Caught(memoized, c)
  /\ UNCHANGED outsideMemoize

MemoInit ==
  GrimoireInit /\ UtilsIdle /\ MemoizeIdle /\ LocalModelsIdle /\ LimiterIdle /\ RestIdle

MemoNext ==
  \/ \E c \in 1..MaxMemoized, k \in MemoKeys : MemoizedCall(c, k)
  \/ \E c \in 1..MaxMemoized, v \in MemoValues : FuncResolves(c, v)
  \/ \E c \in 1..MaxMemoized : FuncRejects(c)

MemoSpec == MemoInit /\ [][MemoNext]_vars

\* -------------------------------------------------------- local models
\* Mutant of Admission: the files of a configured model are not checked.
Admission_NoReadinessCheck(lm, modelId) ==
  IF modelId \notin lm.models
  THEN IF lm.manager = "localModels" THEN <<"MODEL_NOT_FOUND">> ELSE <<"not found">>
  ELSE <<>>

\* The checks generateResponse makes before it spawns: the error it throws,
\* or <<>> when the request goes on.
\* localModels.js: !this.models.has(modelId) -> ApiError 404 MODEL_NOT_FOUND
\* local-model-manager.js: !this.models[modelId] -> 'Model ... not found';
\*   !checkModel(modelId) -> 'Model ... is not available (status: ...)'
Admission(lm, modelId) ==
  IF modelId \notin lm.models
  THEN IF lm.manager = "localModels" THEN <<"MODEL_NOT_FOUND">> ELSE <<"not found">>
  ELSE IF lm.manager = "local-model-manager" /\ modelId \notin InstalledModels
       THEN <<"is not available">>
  ELSE <<>>

\* resolve / reject of the promise of a call: only the first one settles it,
\* and with it the caller's promise unless the timeout has won the race.
Settle(g, pc, value) ==
  IF g.pc # "pending" THEN [g EXCEPT !.settles = @ + 1]
  ELSE [g EXCEPT !.pc = pc, !.value = value, !.settles = @ + 1,
                 !.call = IF g.call = "pending" THEN pc ELSE @,
                 !.callValue = IF g.call = "pending" THEN value ELSE @]

\* The error of a process that did not exit with code 0.
\* localModels.js: Error(`Model process exited with code ${code}`), wrapped by
\*   generateResponse into ApiError GENERATION_ERROR {error: error.message}
\* local-model-manager.js: Error(`Model process exited with code ${code}\n${errorOutput}`)
ProcessError(manager, code, errorOutput) ==
  IF manager = "localModels"
  THEN <<"GENERATION_ERROR", "Model process exited with code", code>>
  ELSE <<"Model process exited with code", code>> \o errorOutput

\* The error of a process that could not be started.
SpawnError(manager) ==
  IF manager = "localModels" THEN <<"GENERATION_ERROR", "spawn">>
  ELSE <<"Failed to start model process", "spawn">>

outsideLocalModels == <<grimoire, utils, memoized, limiter, lifecycle, modelManager, httpRequest>>

\* generateResponse(modelId, ...) is called, bare or inside withTimeout: the
\* request is refused, or a process is spawned and (localModels.js) stored in
\* this.processes.
GenerateResponse(r, modelId, timed) ==
  /\ localModels.run[r].pc = "idle"
  /\ \A q \in 1..(r - 1) : localModels.run[q].pc # "idle"
  /\ LET refusal == Admission(localModels, modelId)
     IN IF refusal # <<>>
        THEN localModels' =
               [localModels EXCEPT !.run[r] =
                  [IdleGeneration EXCEPT !.pc = "rejected", !.value = refusal,
                                         !.settles = 1, !.model = modelId,
                                         !.timed = timed, !.call = "rejected",
                                         !.callValue = refusal]]
        ELSE \E out \in Stdouts :
               localModels' =
                 [localModels EXCEPT
                    !.run[r] = [IdleGeneration EXCEPT !.pc = "pending",
                                                      !.model = modelId,
                                                      !.timed = timed,
                                                      !.call = "pending",
                                                      !.proc = "running",
                                                      !.stdout = out],
                    !.processes = IF localModels.manager = "localModels"
                                  THEN [@ EXCEPT ![ProcessKey(modelId)] = r]
                                  ELSE @]
  /\ UNCHANGED outsideLocalModels

\* process.stdout.on('data'): output += data.toString()
StdoutData(r, n) ==
  LET g == localModels.run[r]
      upto == IF g.sent + n > Len(g.stdout) THEN Len(g.stdout) ELSE g.sent + n
      data == SubSeq(g.stdout, g.sent + 1, upto)
  IN /\ g.proc = "running"
     /\ g.sent < Len(g.stdout)
     /\ localModels' = [localModels EXCEPT !.run[r].sent = upto,
                                           !.run[r].chunks = Append(@, data),
                                           !.run[r].output = @ \o toString(data)]
     /\ UNCHANGED outsideLocalModels

\* process.stderr.on('data'): logged (localModels.js), or added to errorOutput
\* (local-model-manager.js).
StderrData(r) ==
  LET g == localModels.run[r]
  IN /\ g.proc = "running"
     /\ g.stderr = <<>>
     /\ localModels' =
          [localModels EXCEPT !.run[r].stderr = StderrText,
                              !.run[r].errorOutput =
                                 IF localModels.manager = "localModels" THEN @
                                 ELSE @ \o StderrText]
     /\ UNCHANGED outsideLocalModels

\* process.on('error'): the process could not be started.
ErrorEvent(r) ==
  LET g == localModels.run[r]
  IN /\ g.proc = "running"
     /\ g.sent = 0 /\ g.stderr = <<>> /\ ~g.signalled
     /\ localModels' =
          [localModels EXCEPT !.run[r] =
             [Settle(g, "rejected", SpawnError(localModels.manager))
                EXCEPT !.proc = "failed"]]
     /\ UNCHANGED outsideLocalModels

\* The exit codes the close event of a process may carry.
CloseCodes(g) ==
  IF g.proc = "failed" THEN {"-2"}
  ELSE IF g.signalled THEN {"null"}
  ELSE ExitCodes

\* process.on('close'): the process has ended and its output was delivered.
Close(r, code) ==
  LET g == localModels.run[r]
      m == localModels.manager
  IN /\ g.proc \in {"running", "failed"}
     /\ g.proc = "running" => g.sent = Len(g.stdout)
     /\ code \in CloseCodes(g)
     /\ localModels' =
          [localModels EXCEPT !.run[r] =
             [(IF code = "0"
               THEN Settle(g, "resolved", ExtractReply(m, g.output))
               ELSE Settle(g, "rejected", ProcessError(m, code, g.errorOutput)))
                EXCEPT !.proc = "exited", !.code = code]]
     /\ UNCHANGED outsideLocalModels

\* withTimeout: the timer wins the race; the promise of asyncFunc() is left
\* to itself.
TimeoutFires(r) ==
  LET g == localModels.run[r]
  IN /\ g.timed
     /\ g.call = "pending"
     /\ localModels' = [localModels EXCEPT !.run[r].call = "rejected",
                                           !.run[r].callValue = <<"TIMEOUT">>]
     /\ UNCHANGED outsideLocalModels

\* cleanup(): every process in this.processes is killed, and the map cleared.
Cleanup ==
  /\ localModels.manager = "localModels"
  /\ \E k \in ProcessKeys : localModels.processes[k] # 0
  /\ localModels' =
       [localModels EXCEPT
          !.processes = [k \in ProcessKeys |-> 0],
          !.run = [r \in 1..MaxGenerations |->
                     IF /\ \E k \in ProcessKeys : localModels.processes[k] = r
                        /\ localModels.run[r].proc = "running"
                     THEN [@[r] EXCEPT !.signalled = TRUE]
                     ELSE @[r]]]
  /\ UNCHANGED outsideLocalModels

LocalInit ==
  /\ GrimoireInit /\ UtilsIdle /\ MemoizeIdle /\ LimiterIdle /\ RestIdle
  /\ \E manager \in Managers : localModels = LocalModelManager(manager)

LocalNext ==
  \/ \E r \in 1..MaxGenerations, m \in RequestedModels, timed \in BOOLEAN :
       GenerateResponse(r, m, timed)
  \/ \E r \in 1..MaxGenerations, n \in ChunkSizes : StdoutData(r, n)
  \/ \E r \in 1..MaxGenerations : StderrData(r)
  \/ \E r \in 1..MaxGenerations : ErrorEvent(r)
  \/ \E r \in 1..MaxGenerations, code \in ExitCodes \cup {"-2", "null"} : Close(r, code)
  \/ \E r \in 1..MaxGenerations : TimeoutFires(r)
  \/ Cleanup

LocalSpec == LocalInit /\ [][LocalNext]_vars

\* ---------------------------------------------------------- customLimiter
\* The error the middleware passes on when the limiter rejects.
tooManyRequests == <<"429", "RATE_LIMIT_EXCEEDED">>

\* Mutant of consume: a key over its budget is not blocked.
consume_NoBlock(lim, key) ==
  LET rec == lim.storage[key]
      live == rec.value > 0 /\ lim.now < rec.expiresAt
      incr == IF live THEN [rec EXCEPT !.value = @ + 1]
              ELSE [value |-> 1, expiresAt |-> lim.now + lim.duration]
  IN [record |-> incr, rejected |-> incr.value > lim.points,
      msBeforeNext |-> incr.expiresAt - lim.now]

\* Mutant of consume: the block lasts as long as a window.
consume_BlockEndsWithWindow(lim, key) ==
  LET rec == lim.storage[key]
      live == rec.value > 0 /\ lim.now < rec.expiresAt
      incr == IF live THEN [rec EXCEPT !.value = @ + 1]
              ELSE [value |-> 1, expiresAt |-> lim.now + lim.duration]
      exceeded == incr.value > lim.points
      stored == IF exceeded /\ lim.blockDuration > 0 /\ incr.value <= lim.points + 1
                THEN [value |-> incr.value, expiresAt |-> lim.now + lim.duration]
                ELSE incr
  IN [record |-> stored, rejected |-> exceeded,
      msBeforeNext |-> stored.expiresAt - lim.now]

\* limiter.consume(key) of RateLimiterMemory: the record of the key is
\* incremented, or started anew with `duration` to live when there is none or
\* it has expired; the first time the points are exceeded the record is set
\* again with `blockDuration` to live; the promise rejects when the points are
\* exceeded.
consume(lim, key) ==
  LET rec == lim.storage[key]
      live == rec.value > 0 /\ lim.now < rec.expiresAt
      incr == IF live THEN [rec EXCEPT !.value = @ + 1]
              ELSE [value |-> 1, expiresAt |-> lim.now + lim.duration]
      exceeded == incr.value > lim.points
      stored == IF exceeded /\ lim.blockDuration > 0 /\ incr.value <= lim.points + 1
                THEN [value |-> incr.value, expiresAt |-> lim.now + lim.blockDuration]
                ELSE incr
  IN [record |-> stored, rejected |-> exceeded,
      msBeforeNext |-> stored.expiresAt - lim.now]

outsideLimiter == <<grimoire, utils, memoized, localModels, lifecycle, modelManager, httpRequest>>

\* The middleware handles a request of the given key: next() when consume
\* resolves, next(tooManyRequests(...)) when it rejects.
Middleware(key) ==
  /\ Len(limiter.log) < MaxRequests
  /\ LET res == consume(limiter, key)
     IN limiter' =
          [limiter EXCEPT
             !.storage[key] = res.record,
             !.log = Append(@, [key |-> key, at |-> limiter.now,
                                next |-> IF res.rejected THEN tooManyRequests ELSE <<>>,
                                retryAfter |-> res.msBeforeNext])]
  /\ UNCHANGED outsideLimiter

\* A second passes.
LimiterClock ==
  /\ limiter.now < MaxSeconds
  /\ limiter' = [limiter EXCEPT !.now = @ + 1]
  /\ UNCHANGED outsideLimiter

LimInit ==
  /\ GrimoireInit /\ UtilsIdle /\ MemoizeIdle /\ LocalModelsIdle /\ RestIdle
  /\ \E p \in PointsOptions, d \in DurationOptions, b \in BlockDurationOptions :
       limiter = customLimiter(p, d, b)

LimNext ==
  \/ \E key \in LimiterKeys : Middleware(key)
  \/ LimiterClock

LimSpec == LimInit /\ [][LimNext]_vars

\* ================================================== initialize / shutdown
\* initialize(): this.cleanupInterval = setInterval(...).  The handle the
\* field held before is overwritten.
initialize(life) ==
  [life EXCEPT !.cleanupInterval = life.created + 1,
               !.timers = @ \cup {life.created + 1},
               !.created = @ + 1]

\* shutdown(): if (this.cleanupInterval) clearInterval(this.cleanupInterval).
\* The field keeps the handle.
shutdown(life) ==
  [life EXCEPT !.timers = IF life.cleanupInterval # 0
                            THEN @ \ {life.cleanupInterval} ELSE @,
               !.shutdowns = @ + 1,
               !.createdAtShutdown = life.created,
               !.fired = 0]

outsideLifecycle == <<grimoire, utils, memoized, localModels, limiter, modelManager, httpRequest>>

Initialize ==
  /\ lifecycle.created < MaxInitialize
  /\ lifecycle' = initialize(lifecycle)
  /\ UNCHANGED outsideLifecycle

Shutdown ==
  /\ lifecycle.shutdowns < MaxShutdowns
  /\ lifecycle' = shutdown(lifecycle)
  /\ UNCHANGED outsideLifecycle

\* The interval with handle h fires: () => this.cleanupOldConversations().
\* Nobody receives the count it returns.
IntervalFires(h) ==
  /\ h \in lifecycle.timers
  /\ lifecycle' = [lifecycle EXCEPT !.fired = h]
  /\ conversations' = AfterSweep(DefaultMaxAgeHours)
  /\ outcome' = NoOutcome
  /\ heap' = Collect(heap, conversations', calls, outcome')
  /\ UNCHANGED <<calls, clock, usedIds, rateLimit, utils, memoized, localModels, limiter,
               modelManager, httpRequest>>

LifeNext ==
  \/ Initialize
  \/ Shutdown
  \/ \E h \in 1..MaxInitialize : IntervalFires(h)
  \/ \E o \in ConvIds \cup {None}, ip \in Keys : CreateConversation(None, o, ip)
  \/ Tick

LifeSpec == Init /\ [][LifeNext]_vars

\* ========================================================== ModelManager
\* The methods that reach initializeModels: listModels and isModelAvailable
\* await it when the manager is not initialized.
InitCallers == {"initializeModels", "listModels", "isModelAvailable"}

\* Whether the local manager has an initialize method: the class of
\* localModels.js has one (an async method); the class of
\* local-model-manager.js, the module modelManager.js requires, has none, so
\* this.localModelManager.initialize() throws a TypeError where it is called.
HasInitialize(local) == local = "localModels"

\* The attempts whose async body is suspended at an await.
Running(mgr) ==
  {a \in DOMAIN mgr.attempts : mgr.attempts[a].pc \in {"initialize", "listModels"}}

\* Mutant of Pending: a stored promise is never reused.
Pending_Never(mgr) == FALSE

\* if (this.initializationPromise)
Pending(mgr) == mgr.initializationPromise # 0

\* The async body up to its first await, as attempt a.  With an initialize
\* method the body suspends at `await this.localModelManager.initialize()`.
\* Without one the call throws inside the try before any await: the catch
\* rethrows, the finally sets initializationPromise to null, and the body
\* returns a rejected promise.
BodyStart(mgr, a) ==
  IF HasInitialize(mgr.localModelManager)
  THEN [mgr EXCEPT !.attempts = Append(@, [pc |-> "initialize", initializations |-> 1])]
  ELSE [mgr EXCEPT !.attempts = Append(@, [pc |-> "rejected", initializations |-> 0]),
                   !.initializationPromise = 0]

\* initializeModels(), called by `via`.  The promise the async body returns
\* is assigned to initializationPromise once the body has run to its first
\* await or to its end.
initializeModels(mgr, via) ==
  LET call(promise) == [via |-> via, promise |-> promise]
      a == Len(mgr.attempts) + 1
  IN IF mgr.initialized
     THEN [mgr EXCEPT !.calls = Append(@, call(0))]
     ELSE IF Pending(mgr)
     THEN [mgr EXCEPT !.calls = Append(@, call(mgr.initializationPromise))]
     ELSE [BodyStart(mgr, a) EXCEPT !.initializationPromise = a,
                                    !.calls = Append(@, call(a))]

outsideModelManager ==
  <<grimoire, utils, memoized, localModels, limiter, lifecycle, httpRequest>>

InitializeModels(via) ==
  /\ Len(modelManager.calls) < MaxInitCalls
  /\ modelManager' = initializeModels(modelManager, via)
  /\ UNCHANGED outsideModelManager

\* The body throws after an await: catch rethrows an ApiError, and
\* finally { this.initializationPromise = null }.
Fails(mgr, a) ==
  [mgr EXCEPT !.attempts[a].pc = "rejected", !.initializationPromise = 0]

\* await this.localModelManager.initialize() settles.
LocalInitializeSettles(a, ok) ==
  /\ a \in DOMAIN modelManager.attempts
  /\ modelManager.attempts[a].pc = "initialize"
  /\ modelManager' = IF ok THEN [modelManager EXCEPT !.attempts[a].pc = "listModels"]
                           ELSE Fails(modelManager, a)
  /\ UNCHANGED outsideModelManager

\* await this.localModelManager.listModels() settles; on success the body
\* sets initialized = true and runs to its end through the finally.
LocalListModelsSettles(a, ok) ==
  /\ a \in DOMAIN modelManager.attempts
  /\ modelManager.attempts[a].pc = "listModels"
  /\ modelManager' = IF ok THEN [modelManager EXCEPT !.attempts[a].pc = "fulfilled",
                                                      !.initialized = TRUE,
                                                      !.initializationPromise = 0]
                           ELSE Fails(modelManager, a)
  /\ UNCHANGED outsideModelManager

ManagerInit ==
  /\ GrimoireInit /\ UtilsIdle /\ MemoizeIdle /\ LocalModelsIdle /\ LimiterIdle
  /\ LifecycleIdle /\ HttpRequestIdle
  /\ \E local \in Managers : modelManager = ModelManager(local)

ManagerNext ==
  \/ \E via \in InitCallers : InitializeModels(via)
  \/ \E a \in 1..MaxInitCalls, ok \in BOOLEAN : LocalInitializeSettles(a, ok)
  \/ \E a \in 1..MaxInitCalls, ok \in BOOLEAN : LocalListModelsSettles(a, ok)

ManagerSpec == ManagerInit /\ [][ManagerNext]_vars

\* ====================================================== requestWithRetry
\* new ApiError(statusCode, message, code): the object has the properties
\* statusCode and code (and message, details, isOperational); no `status`.
ApiError(statusCode, code) == [statusCode |-> statusCode, code |-> code]

\* Status codes a server answers with outside 2xx.
HttpStatuses == {400, 404, 408, 429, 500, 503}

\* What httpClient(options) rejects with, after the response interceptor: an
\* ApiError for a response outside 2xx, for no response, and for a request
\* that could not be set up.
Rejections ==
  {ApiError(st, "HTTP_ERROR") : st \in HttpStatuses}
    \cup {ApiError(504, "NETWORK_ERROR"), ApiError(500, "REQUEST_ERROR")}

\* response.data of a fulfilled request.
ResponseData == [data |-> "data"]

\* error.status: the property's value, undefined (0) when the object has none.
status(error) == IF "status" \in DOMAIN error THEN error.status ELSE 0

\* error.status && error.status >= 400 && error.status < 500 &&
\* ![408, 429].includes(error.status)
Breaks(error) ==
  /\ status(error) # 0
  /\ status(error) >= 400 /\ status(error) < 500
  /\ status(error) \notin {408, 429}

\* retryDelay * Math.pow(2, attempt - 1)
RetryDelay(retryDelay, attempt) == retryDelay * 2^(attempt - 1)

\* retryDelay as passed by callers (default 1000).
RetryDelays == {1, 1000}

outsideHttpRequest ==
  <<grimoire, utils, memoized, localModels, limiter, lifecycle, modelManager>>

\* requestWithRetry(options, maxRetries, retryDelay) is called: the loop
\* starts with attempt 1 and awaits httpClient(options).
RequestWithRetry(maxRetries, retryDelay) ==
  /\ httpRequest.pc = "idle"
  /\ httpRequest' = [NoRequest EXCEPT !.pc = "attempting", !.maxRetries = maxRetries,
                                      !.retryDelay = retryDelay, !.attempt = 1]
  /\ UNCHANGED outsideHttpRequest

\* The awaited request is fulfilled: return response.data.
RequestFulfilled ==
  /\ httpRequest.pc = "attempting"
  /\ httpRequest' = [httpRequest EXCEPT !.pc = "returned", !.result = ResponseData,
                                        !.attempts = Append(@, ResponseData)]
  /\ UNCHANGED outsideHttpRequest

\* The awaited request is rejected: the catch block, and what follows it when
\* the loop ends (throw lastError).
RequestRejected(error) ==
  /\ httpRequest.pc = "attempting"
  /\ LET caught == [httpRequest EXCEPT !.lastError = error,
                                       !.attempts = Append(@, error)]
     IN httpRequest' =
          IF Breaks(error)
          THEN [caught EXCEPT !.pc = "threw", !.result = caught.lastError]
          ELSE IF caught.attempt < caught.maxRetries
          THEN [caught EXCEPT !.pc = "waiting",
                              !.waits = Append(@, RetryDelay(caught.retryDelay,
                                                             caught.attempt))]
          ELSE [caught EXCEPT !.pc = "threw", !.result = caught.lastError]
  /\ UNCHANGED outsideHttpRequest

\* The setTimeout of the wait fires: attempt++ and the next request is made.
RetryDelayElapses ==
  /\ httpRequest.pc = "waiting"
  /\ httpRequest' = [httpRequest EXCEPT !.pc = "attempting", !.attempt = @ + 1]
  /\ UNCHANGED outsideHttpRequest

HttpNext ==
  \/ \E m \in 1..MaxHttpRetries, d \in RetryDelays : RequestWithRetry(m, d)
  \/ RequestFulfilled
  \/ \E e \in Rejections : RequestRejected(e)
  \/ RetryDelayElapses

HttpSpec == Init /\ [][HttpNext]_vars

\* ================================================================ claims
Messages(o) == heap[o].messages

IsReply(m) == m.role = "assistant" \/ (m.role = "system" /\ m.isError)

InFlightOn(o) == {k \in DOMAIN calls : InFlight(k) /\ calls[k].conv = o}

IsPrefix(a, b) == Len(a) <= Len(b) /\ SubSeq(b, 1, Len(a)) = a

\* The last step settled a processMessage call (made directly or by askGrimoire)
\* that had entered generation.
SettledAfterGeneration == outcome.k # 0 /\ outcome.userMsg # <<>>

BackendFailed == SettledAfterGeneration /\ ~outcome.backend.ok

BackendSucceeded == SettledAfterGeneration /\ outcome.backend.ok

\* C1: every settled processMessage call has appended exactly one user message
\* and exactly one reply (assistant, or system marked isError) to its
\* conversation, and a call in flight its user message only; so a stored
\* conversation with no call in flight holds 2n messages after n settled calls.
C1_MessagesPaired ==
  \A o \in Stored :
    LET ms == Messages(o)
        n == heap[o].completed
        users == {i \in DOMAIN ms : ms[i].role = "user"}
        replies == {i \in DOMAIN ms : IsReply(ms[i])}
    IN /\ users \cup replies = DOMAIN ms
       /\ Cardinality(replies) = n
       /\ Cardinality(users) = n + Cardinality(InFlightOn(o))
       /\ \A i, j \in DOMAIN ms : ms[i].id = ms[j].id => i = j
       /\ \A i \in replies : \E j \in users : j < i /\ ms[j].call = ms[i].call
       /\ InFlightOn(o) = {} => Len(ms) = 2 * n

\* C1 witness: an idle stored conversation after two settled calls, one that
\* returned and one that threw.
C1_Witness ==
  \E o \in Stored :
    /\ InFlightOn(o) = {}
    /\ heap[o].completed = 2
    /\ \E i, j \in DOMAIN Messages(o) :
         Messages(o)[i].role = "assistant" /\ Messages(o)[j].isError

\* C2: calls on one conversation are serialized: in the history every user
\* message is directly followed by the reply of the same call.
C2_Serialized ==
  \A o \in Stored :
    \A i \in DOMAIN Messages(o) :
      (Messages(o)[i].role = "user" /\ i < Len(Messages(o))) =>
        /\ IsReply(Messages(o)[i + 1])
        /\ Messages(o)[i + 1].call = Messages(o)[i].call

\* C3: while a conversation id stays in the store, the message list found
\* under it only grows: each step leaves the old list a prefix of the new one.
C3_AppendOnly ==
  [][\A c \in ConvIds :
       (conversations[c] # 0 /\ conversations'[c] # 0) =>
         IsPrefix(heap[conversations[c]].messages, heap'[conversations'[c]].messages)]_vars

\* C4: when the backend call of processMessage fails, the call throws and
\* never returns a result; its user message is still in the history, and
\* exactly one system message marked isError, recording the error, follows it.
C4_FailureRecorded ==
  BackendFailed =>
    LET ms == Messages(outcome.conv)
        u == {i \in DOMAIN ms : ms[i].id = outcome.userMsg}
        e == {i \in DOMAIN ms : ms[i].isError /\ ms[i].call = outcome.k}
    IN /\ outcome.status = "threw"
       /\ outcome.result = NoResult
       /\ outcome.error = outcome.backend.val
       /\ Cardinality(u) = 1
       /\ Cardinality(e) = 1
       /\ \A i \in u, j \in e :
            /\ i < j
            /\ j = Len(ms)
            /\ ms[i].role = "user"
            /\ ms[j].role = "system"
            /\ ms[j].content = <<"Error:">> \o outcome.error
       /\ \A i \in DOMAIN ms : ms[i].call = outcome.k => i \in u \cup e

\* C4 witness: a call has just thrown after a failed backend call, on a
\* conversation that holds an earlier exchange too.
C4_Witness ==
  /\ BackendFailed
  /\ outcome.status = "threw"
  /\ Len(Messages(outcome.conv)) = 4

\* C5: processMessage on an id that is not in the store throws 'Conversation
\* not found' and changes nothing: the store and every conversation are as
\* before, no call is suspended on a backend, no backend call was made.
C5_NotFoundChangesNothing ==
  [][\A cid \in ConvIds, t \in UserTexts, key \in Keys :
       (conversations[cid] = 0 /\ ProcessMessage(cid, t, key)) =>
         /\ outcome'.status = "threw"
         /\ outcome'.error = <<"Conversation not found">>
         /\ outcome'.attempts = 0
         /\ conversations' = conversations
         /\ Len(heap') = Len(heap)
         /\ \A o \in Stored : heap'[o] = heap[o]
         /\ \A k \in DOMAIN calls : InFlight(k) => heap'[calls[k].conv] = heap[calls[k].conv]
         /\ \A k \in DOMAIN calls' : calls'[k].pc = "generating" =>
              (k \in DOMAIN calls /\ calls'[k] = calls[k])]_vars

\* C5 witness: processMessage has just thrown 'Conversation not found' while
\* another conversation holds messages and a call in flight.
C5_Witness ==
  /\ outcome.op = "processMessage"
  /\ outcome.error = <<"Conversation not found">>
  /\ \E o \in Stored : Len(Messages(o)) > 0 /\ InFlightOn(o) # {}

\* C6: when the backend call succeeds, the call returns; exactly one assistant
\* message of the call, carrying the generated text, is in the history, and
\* the result describes it: response, messageId, conversationId, model.
C6_SuccessResult ==
  BackendSucceeded =>
    LET ms == Messages(outcome.conv)
        a == {i \in DOMAIN ms : ms[i].call = outcome.k /\ ms[i].role # "user"}
    IN /\ outcome.status = "returned"
       /\ Cardinality(a) = 1
       /\ \A i \in a :
            /\ i = Len(ms)
            /\ ms[i].role = "assistant"
            /\ ~ms[i].isError
            /\ ms[i].content = outcome.backend.val
            /\ outcome.result.response = ms[i].content
            /\ outcome.result.messageId = ms[i].id
       /\ outcome.result.conversationId = outcome.convId
       /\ outcome.result.model = heap[outcome.conv].model.id

\* C6 witness: processMessage has just returned the text of a remote model.
C6_Witness ==
  /\ BackendSucceeded
  /\ outcome.op = "processMessage"
  /\ outcome.status = "returned"
  /\ outcome.result.model = "gpt"
  /\ outcome.result.response = <<"hi">>

\* C7: a call that has appended its user message (Generating) settles: it
\* leaves Generating for good with its reply appended, given that its backend
\* call terminates; a call is never in any other state.
C7_GeneratingSettles ==
  /\ \A k \in 1..MaxCalls :
       (k \in DOMAIN calls /\ calls[k].pc = "generating")
         ~> (k \in DOMAIN calls /\ calls[k].pc = "done")
  /\ [](\A k \in DOMAIN calls : calls[k].pc \in {"created", "generating", "done"})
  /\ [](SettledAfterGeneration =>
          \E i \in DOMAIN Messages(outcome.conv) :
            /\ IsReply(Messages(outcome.conv)[i])
            /\ Messages(outcome.conv)[i].call = outcome.k)

\* C7 witness: one call has settled after generation while another is still
\* generating.
C7_Witness ==
  /\ SettledAfterGeneration
  /\ \E k \in DOMAIN calls : InFlight(k)

\* C8: a call that is dispatched to a backend has consumed a point of the
\* limiter for its caller key: the limiter's store has an entry for the key.
C8_LimiterConsulted ==
  \A k \in DOMAIN calls : InFlight(k) => calls[k].key \in rateLimit.store

\* C9: a remote backend call that failed with a transient error was
\* re-attempted before the failure was recorded and thrown.
C9_TransientRetried ==
  (BackendFailed /\ IsTransient(outcome.backend.cause)) => outcome.attempts > 1

\* C10: a step of a call on one conversation leaves the store and every other
\* stored conversation (messages, model, metadata, updatedAt) as they were, and
\* no call waits for another: a suspended call can always resume and a new call
\* can always start, whatever calls are in flight.
OthersUntouched(o) ==
  /\ conversations' = conversations
  /\ \A b \in Stored \ {o} : heap'[b] = heap[b]

C10_Independent ==
  /\ [][\A k \in DOMAIN calls :
          (ProcessMessageResume(k) \/ AskGrimoireResume(k)) =>
            OthersUntouched(IF InFlight(k) THEN calls[k].conv
                            ELSE conversations[calls[k].convId])]_vars
  /\ [][\A cid \in ConvIds, t \in UserTexts, key \in Keys :
          ProcessMessage(cid, t, key) => OthersUntouched(conversations[cid])]_vars
  /\ [](\A k \in DOMAIN calls : InFlight(k) => ENABLED ProcessMessageResume(k))
  /\ [](Len(calls) < MaxCalls =>
          \A cid \in ConvIds, t \in UserTexts, key \in Keys :
            ENABLED ProcessMessage(cid, t, key))

\* C10 witness: a call on one stored conversation has just settled while a
\* call on another stored conversation, which holds messages, is in flight.
C10_Witness ==
  /\ SettledAfterGeneration
  /\ outcome.conv \in Stored
  /\ \E k \in DOMAIN calls :
       /\ InFlight(k)
       /\ calls[k].conv \in Stored
       /\ calls[k].conv # outcome.conv

\* ------------------------------------------------------------------- C11
\* The run calls whose task is executing, and those that hold a slot (from
\* the moment acquire grants it to the release in the finally block).
Executing == {t \in 1..MaxRuns : semaphore.runs[t].pc = "executing"}
Holding == {t \in 1..MaxRuns : semaphore.runs[t].pc \in {"admitted", "executing", "settled"}}

\* C11: a semaphore of m slots never has more than m tasks executing inside
\* run, its running counter equals the number of run calls that hold a slot,
\* and with m = 1 a task starts only while no other task is executing.
C11_SemaphoreBound ==
  /\ [](Cardinality(Executing) <= semaphore.maxConcurrent)
  /\ [](semaphore.running = Cardinality(Holding))
  /\ [][\A t \in 1..MaxRuns :
         (semaphore.maxConcurrent = 1 /\ ~semaphore.runs[t].started
            /\ semaphore'.runs[t].started)
         => \A u \in 1..MaxRuns \ {t} :
              /\ semaphore.runs[u].pc \notin {"admitted", "executing", "settled"}
              /\ semaphore.runs[u].started => semaphore.runs[u].pc = "done"]_vars

\* Every slot is taken and one more run call waits in the queue.
C11_Witness ==
  /\ Cardinality(Executing) = semaphore.maxConcurrent
  /\ Len(semaphore.queue) > 0

\* ------------------------------------------------------------------- C12
\* C12: run releases its slot exactly once on every exit path of the task,
\* and every run call waiting in the queue is eventually admitted and calls
\* its task, also after earlier tasks have failed.
C12_SlotNeverLost ==
  /\ [](\A t \in 1..MaxRuns :
         semaphore.runs[t].releases = IF semaphore.runs[t].pc = "done" THEN 1 ELSE 0)
  /\ \A t \in 1..MaxRuns :
       (semaphore.runs[t].pc = "waiting") ~> semaphore.runs[t].started

\* A run call that waited has called its task after another task failed.
C12_Witness ==
  \E t, u \in 1..MaxRuns :
    /\ semaphore.runs[t].pc = "done" /\ semaphore.runs[t].result = "error"
    /\ semaphore.runs[u].queued /\ semaphore.runs[u].started
    /\ semaphore.runs[u].pc = "executing"

\* ------------------------------------------------------------------- C13
\* C13: retry invokes the task at most maxRetries times; it returns the value
\* of the first successful invocation and invokes nothing after it, invokes
\* nothing after an error shouldRetry refuses, and when it fails after an
\* invocation it throws the error of the last invocation.
C13_RetryContract ==
  /\ Len(retry.log) <= retry.maxRetries
  /\ \A i \in DOMAIN retry.log :
       i < Len(retry.log) =>
         ~retry.log[i].ok /\ ShouldRetry(retry.shouldRetry, retry.log[i].val)
  /\ retry.pc = "returned" =>
       /\ retry.log[Len(retry.log)].ok
       /\ retry.result = retry.log[Len(retry.log)].val
  /\ (retry.pc = "thrown" /\ retry.log # <<>>) =>
       /\ ~retry.log[Len(retry.log)].ok
       /\ retry.lastError = retry.log[Len(retry.log)].val
  /\ (retry.pc \in {"returned", "thrown"} /\ retry.maxRetries > 0) => retry.log # <<>>

\* A retry that failed with a refused error different from the first one.
C13_Witness ==
  /\ retry.pc = "thrown"
  /\ Len(retry.log) = 2
  /\ Len(retry.log) < retry.maxRetries
  /\ retry.log[1].val # retry.log[2].val

\* ------------------------------------------------------------------- C14
\* C14: the wait after failed attempt j is at least initialDelay * 2^(j-1)
\* and less than that plus 1000 ms; there is one wait per attempt that was
\* followed by another, so none before the first attempt and none after the
\* last failed one.
C14_WaitBetweenAttempts ==
  /\ \A j \in DOMAIN retry.delays :
       /\ retry.delays[j] >= retry.initialDelay * 2 ^ (j - 1)
       /\ retry.delays[j] < retry.initialDelay * 2 ^ (j - 1) + 1000
  /\ retry.pc = "invoking" => Len(retry.delays) = Len(retry.log)
  /\ retry.pc = "sleeping" => Len(retry.delays) = Len(retry.log)
  /\ (retry.pc \in {"returned", "thrown"} /\ retry.log # <<>>) =>
       Len(retry.delays) = Len(retry.log) - 1

\* retry(task, 3, 100, always) on a task that failed twice and then succeeded.
C14_Witness ==
  /\ retry.pc = "returned" /\ retry.shouldRetry = "always"
  /\ retry.initialDelay = 100 /\ retry.maxRetries = 3
  /\ Len(retry.delays) = 2
  /\ retry.delays[1] >= 100 /\ retry.delays[2] >= 200

\* ------------------------------------------------------------------- C15
\* C15 as stated: the delay armed before attempt k, the attempt about to be
\* made, is initialDelay * 2^(k-1) plus a jitter of [0, 1000).
C15_DelayBeforeAttemptK ==
  [][(retry.pc = "invoking" /\ retry'.pc = "sleeping") =>
      LET k == retry.attempt + 1
          d == retry'.delays[Len(retry'.delays)]
      IN /\ d >= retry.initialDelay * 2 ^ (k - 1)
         /\ d < retry.initialDelay * 2 ^ (k - 1) + 1000]_vars

\* C15 amended: the delay armed before attempt k >= 2 is
\* initialDelay * 2^(k-2) plus a jitter of [0, 1000): the exponent counts the
\* attempts that have failed, not the attempt about to be made.
C15_DelayAfterFailedAttempt ==
  [][(retry.pc = "invoking" /\ retry'.pc = "sleeping") =>
      LET k == retry.attempt + 1
          d == retry'.delays[Len(retry'.delays)]
      IN /\ k >= 2
         /\ d >= retry.initialDelay * 2 ^ (k - 2)
         /\ d < retry.initialDelay * 2 ^ (k - 2) + 1000]_vars

\* The timer before attempt 3 is armed.
C15_Witness ==
  /\ retry.pc = "sleeping"
  /\ retry.attempt = 2
  /\ Len(retry.delays) = 2

\* ------------------------------------------------------------------- C16
\* The tasks that have been called and have not settled.
Started == {i \in 1..MaxTasks : parallel.task[i] = "running"}

\* C16: parallelLimit never has more than `concurrency` tasks started and
\* not yet settled.
C16_AtMostConcurrency ==
  parallel.pc # "idle" => Cardinality(Started) <= parallel.concurrency

\* The limit binds: `concurrency` tasks are running and more are to come.
C16_Witness ==
  /\ parallel.pc = "race"
  /\ parallel.index <= parallel.n
  /\ parallel.concurrency >= 2
  /\ Cardinality(Started) = parallel.concurrency

\* ------------------------------------------------------------------- C17
\* C17: when parallelLimit resolves, element i of its value is the result of
\* input task i, and every input task has been run exactly once.
C17_ResultsInInputOrder ==
  parallel.pc = "resolved" =>
    /\ Len(parallel.value) = parallel.n
    /\ \A i \in 1..parallel.n :
         parallel.value[i] = ValueOf(i) /\ parallel.runs[i] = 1

\* Resolved although the tasks settled in another order than the input's,
\* under a limit that made a task wait.
C17_Witness ==
  /\ parallel.pc = "resolved"
  /\ parallel.n = 3 /\ parallel.concurrency = 2
  /\ parallel.order = <<2, 3, 1>>

\* ------------------------------------------------------------------- C18
\* The calls of the throttled function whose invocation of func is running.
Invoking == {c \in 1..MaxThrottled : throttled.call[c].pc = "invoking"}

\* Something is left that settles the queued calls: a running invocation
\* (its success arms the timer, its failure rejects the queue) or the timer.
QueueWillSettle == Invoking # {} \/ throttled.timer >= 0

\* C18: every call of a throttled function settles exactly once and never
\* stays pending forever: a call never settles twice, and a queued call
\* always has a running invocation or an armed timer that settles it.
C18_EveryCallSettles ==
  \A c \in 1..MaxThrottled :
    /\ throttled.call[c].settled <= 1
    /\ throttled.call[c].pc = "queued" => QueueWillSettle

\* ------------------------------------------------------------------- C19
\* The window of `limit` after the last completed invocation is running.
InWindow ==
  /\ throttled.completedAt >= 0
  /\ throttled.now < throttled.completedAt + throttled.limit

\* C19: at most one invocation of func is active; an invocation starts only
\* after the window following the last completed one has elapsed; a call
\* that arrives while an invocation is active or inside the window does not
\* invoke func, and is settled, with the outcome (the result, or the error)
\* of the most recent completed invocation.
C19_ThrottleWindow ==
  /\ [](Cardinality(Invoking) <= 1)
  /\ [][\A c \in 1..MaxThrottled :
         (throttled.call[c].pc = "idle" /\ throttled'.call[c].pc = "invoking")
         => (Invoking = {} /\ ~InWindow)]_vars
  /\ [][\A c \in 1..MaxThrottled :
         (throttled.call[c].pc = "idle" /\ throttled'.call[c].pc # "idle"
            /\ (Invoking # {} \/ InWindow))
         => throttled'.call[c].pc = "queued"]_vars
  /\ [][\A c \in 1..MaxThrottled :
         (throttled.call[c].pc = "queued" /\ throttled'.call[c].pc # "queued")
         => throttled'.call[c].value = throttled'.completed]_vars
  /\ [](\A c \in 1..MaxThrottled :
         throttled.call[c].pc = "queued" => QueueWillSettle)

\* ------------------------------------------------------------------- C20
\* Call c is followed, less than `wait` later, by call c + 1 of the same burst.
Chained(c) ==
  /\ c < MaxDebounced
  /\ debounced.call[c + 1].pc # "idle"
  /\ debounced.call[c + 1].at - debounced.call[c].at < debounced.wait

\* C20: in a burst of calls each less than `wait` after the previous one,
\* only the last call's timer fires, so func is invoked once, `wait` after
\* the last call; the callers of the burst are settled together, each once,
\* resolved with that invocation's value or rejected with its error.
C20_BurstCoalesced ==
  \A c \in 1..MaxDebounced :
    /\ debounced.call[c].settled <= 1
    /\ Chained(c) =>
         /\ debounced.later[c].pc = "cleared"
         /\ debounced.call[c].pc = debounced.call[c + 1].pc
         /\ debounced.call[c].value = debounced.call[c + 1].value
    /\ debounced.later[c].pc \in {"running", "done"} =>
         /\ debounced.later[c].startedAt = debounced.call[c].at + debounced.wait
         /\ \A i \in 1..Len(debounced.later[c].current) :
              LET caller == debounced.later[c].current[i]
              IN IF debounced.later[c].pc = "running"
                 THEN debounced.call[caller].pc = "pending"
                 ELSE /\ debounced.call[caller].settled = 1
                      /\ debounced.call[caller].value \in {ResultOfCall(c), ErrorOfCall(c)}
                      /\ debounced.call[caller].pc =
                           IF debounced.call[caller].value = ResultOfCall(c)
                           THEN "resolved" ELSE "rejected"
    /\ debounced.call[c].pc \in {"resolved", "rejected"} =>
         \E l \in c..MaxDebounced :
           /\ debounced.later[l].pc = "done"
           /\ \E i \in 1..Len(debounced.later[l].current) :
                debounced.later[l].current[i] = c

\* A burst of two calls at different times was rejected by one invocation.
C20_Witness ==
  /\ Chained(1)
  /\ debounced.call[2].at > debounced.call[1].at
  /\ debounced.call[1].pc = "rejected"
  /\ debounced.call[2].pc = "rejected"
  /\ debounced.call[1].value = ErrorOfCall(2)

\* The memoized calls that have begun, and those of key k.
MemoCalls == {c \in 1..MaxMemoized : memoized.call[c].pc # "idle"}

\* The invocations of func for key k that resolved before time t.
ResolvedBefore(k, t) ==
  {d \in MemoCalls : /\ memoized.call[d].key = k
                     /\ memoized.call[d].invoked
                     /\ memoized.call[d].pc = "returned"
                     /\ memoized.call[d].done < t}

RejectedCalls == {d \in MemoCalls : memoized.call[d].pc = "thrown"}

\* The next call with the key of d that began after d settled, if any.
NextCallAfter(d) ==
  {c \in MemoCalls : /\ memoized.call[c].key = memoized.call[d].key
                     /\ memoized.call[c].at > memoized.call[d].done
                     /\ \A e \in MemoCalls :
                          (/\ memoized.call[e].key = memoized.call[d].key
                           /\ memoized.call[e].at > memoized.call[d].done)
                          => memoized.call[e].at >= memoized.call[c].at}

\* C21 (as stated): once an invocation of fn for key k has resolved, every
\* later call with key k returns that invocation's value without invoking fn;
\* and the call with key k that follows a rejected invocation for k invokes fn
\* again.
C21_FirstResultForever ==
  /\ \A c \in MemoCalls : \A d \in ResolvedBefore(memoized.call[c].key, memoized.call[c].at) :
       /\ ~memoized.call[c].invoked
       /\ memoized.call[c].value = memoized.call[d].value
  /\ \A d \in RejectedCalls : \A c \in NextCallAfter(d) : memoized.call[c].invoked

\* The invocation for key k that resolved last before time t.
LastResolvedBefore(k, t) ==
  {d \in ResolvedBefore(k, t) :
     \A e \in ResolvedBefore(k, t) : memoized.call[e].done <= memoized.call[d].done}

\* C21 (amended): a call with key k made after an invocation of fn for k has
\* resolved returns, without invoking fn, the value of the invocation for k
\* that resolved last before the call; a call made when no invocation for k
\* has resolved invokes fn, whatever invocations for k have rejected; and the
\* cache holds for each key the value of the last resolved invocation, or
\* nothing.
C21_LastResultUntilReplaced ==
  /\ \A c \in MemoCalls :
       LET k == memoized.call[c].key
           t == memoized.call[c].at
       IN IF ResolvedBefore(k, t) = {}
          THEN memoized.call[c].invoked
          ELSE /\ ~memoized.call[c].invoked
               /\ memoized.call[c].pc = "returned"
               /\ \A d \in LastResolvedBefore(k, t) :
                    memoized.call[c].value = memoized.call[d].value
  /\ \A k \in MemoKeys :
       IF ResolvedBefore(k, memoized.now + 1) = {}
       THEN memoized.cache[k] = <<>>
       ELSE \A d \in LastResolvedBefore(k, memoized.now + 1) :
              memoized.cache[k] = memoized.call[d].value

\* A hit served from the cache, and a rejected invocation followed by a call
\* of the same key that invoked fn again.
C21_Witness ==
  /\ \E c \in MemoCalls : ~memoized.call[c].invoked /\ memoized.call[c].pc = "returned"
  /\ \E d \in RejectedCalls : \E c \in NextCallAfter(d) : memoized.call[c].invoked

\* The generateResponse calls made, those whose promise is pending, and those
\* whose process is running.
Generations == {r \in 1..MaxGenerations : localModels.run[r].pc # "idle"}
InFlightRuns == {r \in Generations : localModels.run[r].pc = "pending"}
RunningProcesses == {r \in Generations : localModels.run[r].proc = "running"}

\* The calls whose process handle this.processes holds.
Tracked == {localModels.processes[k] : k \in ProcessKeys} \ {0}

\* C22: at any moment at most one inference process spawned for a given local
\* model is running (a second request for a busy model has spawned nothing
\* yet), and the tracked process reference of a request in flight is not
\* overwritten by another request: while the request is in flight its key
\* names its own process, or nothing once cleanup has run.
C22_OneProcessPerModel ==
  /\ \A r, q \in RunningProcesses :
       localModels.run[r].model = localModels.run[q].model => r = q
  /\ \A r \in InFlightRuns :
       localModels.processes[ProcessKey(localModels.run[r].model)] \in {0, r}

\* C23: once a run call has settled, no shared state of the runner holds a
\* reference to its process.
C23_HandleNotRetained ==
  \A r \in Generations : localModels.run[r].pc # "pending" => r \notin Tracked

\* The calls that failed because the timeout fired.
TimedOut ==
  {r \in Generations : localModels.run[r].call = "rejected"
                       /\ localModels.run[r].callValue = <<"TIMEOUT">>}

\* C24: when a backend call has failed by timeout, its process has been sent a
\* terminate signal or has ended: no process is left running unsignalled
\* behind a call that timed out.
C24_TimeoutReachesProcess ==
  \A r \in TimedOut :
    localModels.run[r].proc = "running" => localModels.run[r].signalled

\* The text a process has written to its standard output, as the chunks
\* received say it.
RECURSIVE Accumulated(_)
Accumulated(chunks) ==
  IF chunks = <<>> THEN <<>>
  ELSE toString(Head(chunks)) \o Accumulated(Tail(chunks))

\* The calls whose process exited with code 0.
ExitedNormally == {r \in Generations : localModels.run[r].code = "0"}

\* C25: when the process exits with code 0 and its standard output does not
\* contain the delimiter, the run fails instead of returning text.
C25_MalformedOutputFails ==
  \A r \in ExitedNormally :
    Occurrences(Accumulated(localModels.run[r].chunks)) = {}
      => localModels.run[r].pc = "rejected"

\* The part of a text that follows the last occurrence of the delimiter.
AfterLast(text) == SubSeq(text, Max(Occurrences(text)) + Len(Delimiter), Len(text))

\* The text without the whitespace at its two ends.
Trimmed(text) ==
  LET inner == {i \in 1..Len(text) : text[i] \notin Whitespace}
  IN IF inner = {} THEN <<>> ELSE SubSeq(text, Min(inner), Max(inner))

\* C26: when the process exits with code 0 and its standard output contains
\* the delimiter, the reply of runModel (localModels.js) is the trimmed part of
\* the accumulated output after the last occurrence of the delimiter, the
\* output being the stdout chunks in arrival order, with nothing of what was
\* written to standard error.
C26_ReplyAfterLastDelimiter ==
  localModels.manager = "localModels" =>
    \A r \in ExitedNormally :
      LET text == Accumulated(localModels.run[r].chunks)
      IN Occurrences(text) # {} =>
           /\ localModels.run[r].pc = "resolved"
           /\ localModels.run[r].value = Trimmed(AfterLast(text))

\* A reply was taken from an output with two delimiters that came in several
\* chunks, while the process also wrote to standard error.
C26_Witness ==
  /\ localModels.manager = "localModels"
  /\ \E r \in ExitedNormally :
       /\ Cardinality(Occurrences(Accumulated(localModels.run[r].chunks))) = 2
       /\ Len(localModels.run[r].chunks) >= 2
       /\ localModels.run[r].stderr # <<>>
       /\ localModels.run[r].value = <<"b">>

\* The error a refused request fails with.
NotFoundErrors == {<<"MODEL_NOT_FOUND">>, <<"not found">>}
NotReadyErrors == {<<"is not available">>}

GeneratingLocally ==
  {k \in DOMAIN calls : /\ calls[k].pc = "generating"
                        /\ heap[calls[k].conv].model.provider = "local"}

\* C27: a local-process run that ends with a non-zero exit code fails, and
\* inside processMessage it fails the call and adds a system error message to
\* the conversation: so a processMessage call on a conversation whose model
\* runs as a local process has handed its generation to one run of that
\* process, whose failure is among the outcomes the call may settle with.
C27_LocalRunBehindCall ==
  \A k \in GeneratingLocally :
    /\ calls[k].attempts = 1
    /\ \E out \in Outcomes(k) : ~out.ok

\* What a createConversation(modelId, ...) call must leave behind.
CreatedAsAsked(modelId) ==
  IF modelId # None /\ ~ModelKnown(modelId)
  THEN /\ outcome'.status # "ok"
       /\ conversations' = conversations
       /\ \A o \in Stored : heap'[o] = heap[o]
  ELSE LET o == conversations'[outcome'.id]
       IN /\ outcome'.status = "ok"
          /\ o # 0
          /\ o \notin DOMAIN heap
          /\ heap'[o].id = outcome'.id
          /\ heap'[o].model = ModelTable[IF modelId = None THEN DefaultModel ELSE modelId]
          /\ heap'[o].messages = <<>>
          /\ \A c \in ConvIds \ {outcome'.id} : conversations'[c] = conversations[c]

RequestsOf(key) == SelectSeq(limiter.log, LAMBDA e : e.key = key)

\* What the budget of a key is after one more consume call at time `at`: a
\* call that finds no window, a window that is over, or a block that has
\* elapsed opens a window and is allowed; inside a window the first `points`
\* calls are allowed and the next is denied and starts the block; inside the
\* block every call is denied.
Budget(st, at) ==
  IF \/ st.mode = "none"
     \/ st.mode = "window" /\ at >= st.since + limiter.duration
     \/ st.mode = "blocked" /\ at >= st.since + limiter.blockDuration
  THEN [mode |-> "window", since |-> at, count |-> 1, allowed |-> TRUE]
  ELSE IF st.mode = "window" /\ st.count < limiter.points
  THEN [st EXCEPT !.count = @ + 1, !.allowed = TRUE]
  ELSE IF st.mode = "window"
  THEN [st EXCEPT !.mode = "blocked", !.since = at, !.allowed = FALSE]
  ELSE [st EXCEPT !.allowed = FALSE]

\* The budget of a key after the first n of its requests.
RECURSIVE BudgetAfter(_, _)
BudgetAfter(requests, n) ==
  IF n = 0 THEN [mode |-> "none", since |-> 0, count |-> 0, allowed |-> TRUE]
  ELSE Budget(BudgetAfter(requests, n - 1), requests[n].at)

\* C30: for each key, the first `points` requests inside a window are passed
\* on with next(), the next request inside the window is passed to next with
\* the 429 RATE_LIMIT_EXCEEDED error, as is every request during the block
\* that follows, and once the block period has elapsed requests are passed on
\* again.
C30_BudgetPerWindow ==
  \A key \in LimiterKeys :
    \A n \in 1..Len(RequestsOf(key)) :
      RequestsOf(key)[n].next =
        IF BudgetAfter(RequestsOf(key), n).allowed THEN <<>> ELSE tooManyRequests

\* With two points, a key was allowed twice and denied the third time inside
\* one window, denied again after the window but inside the block, and
\* allowed once the block had elapsed.
C30_Witness ==
  /\ limiter.points = 2 /\ limiter.duration < limiter.blockDuration
  /\ \E key \in LimiterKeys :
       LET reqs == RequestsOf(key)
       IN /\ Len(reqs) = 4
          /\ reqs[1].next = <<>> /\ reqs[2].next = <<>>
          /\ reqs[3].next = tooManyRequests
          /\ reqs[3].at < reqs[1].at + limiter.duration
          /\ reqs[4].next = <<>>
          /\ reqs[4].at >= reqs[3].at + limiter.blockDuration

\* The requests of a key that exhausted its budget: a denied request that
\* follows an allowed one.
Exhausting(reqs) ==
  {m \in 1..Len(reqs) : /\ reqs[m].next = tooManyRequests
                        /\ m > 1 /\ reqs[m - 1].next = <<>>}

\* C31: once a key has exhausted its budget, every request of that key made
\* before the block period has elapsed is denied, whether or not the window
\* in which the budget was exhausted has ended; and a key that has made fewer
\* than `points` requests is allowed, whatever the other keys have done.
C31_BlockOutlastsWindow ==
  \A key \in LimiterKeys :
    LET reqs == RequestsOf(key)
    IN /\ \A m \in Exhausting(reqs) : \A n \in (m + 1)..Len(reqs) :
            reqs[n].at < reqs[m].at + limiter.blockDuration
              => reqs[n].next = tooManyRequests
       /\ \A n \in 1..Len(reqs) : n <= limiter.points => reqs[n].next = <<>>

\* A key was denied after its window had ended and before its block had, and
\* another key was allowed in between.
C31_Witness ==
  \E key \in LimiterKeys, i, j \in 1..Len(limiter.log) :
    LET reqs == RequestsOf(key)
    IN /\ \E m \in Exhausting(reqs) :
            /\ reqs[Len(reqs)].at >= reqs[1].at + limiter.duration
            /\ reqs[Len(reqs)].at < reqs[m].at + limiter.blockDuration
            /\ reqs[Len(reqs)].next = tooManyRequests
            /\ Len(reqs) > m
       /\ i < j
       /\ limiter.log[i].key # key /\ limiter.log[i].next = <<>>
       /\ limiter.log[j].key = key /\ limiter.log[j].next = tooManyRequests
       /\ limiter.log[i].at > reqs[1].at

\* The ids a step takes out of the store, and the age of a stored conversation.
RemovedIds == {c \in ConvIds : Has(c) /\ conversations'[c] = 0}
AgeHours(c) == clock - heap[conversations[c]].updatedAt

\* C32: cleanupOldConversations(maxAgeHours) removes the conversations whose
\* updatedAt is more than maxAgeHours old and no other, leaves the others and
\* their messages as they were, adds none, and returns the number removed.
C32_SweepRemovesTheStale ==
  [][\A maxAgeHours \in AgeInputs :
       CleanupOldConversations(maxAgeHours) =>
         /\ RemovedIds = {c \in ConvIds : Has(c) /\ AgeHours(c) > maxAgeHours}
         /\ \A c \in ConvIds \ RemovedIds :
              /\ conversations'[c] = conversations[c]
              /\ Has(c) => heap'[conversations[c]] = heap[conversations[c]]
         /\ outcome'.removed = Cardinality(RemovedIds)]_vars

\* A sweep has just removed a conversation and kept another, which holds
\* messages.
C32_Witness ==
  /\ outcome.op = "cleanupOldConversations"
  /\ outcome.removed = 1
  /\ \E c \in ConvIds : Has(c) /\ heap[conversations[c]].messages # <<>>

\* ---------------------------------------------------------------- C33
\* The objects a returned list holds.
ListedObjects(list) == {list[i] : i \in 1..Len(list)}

\* C33: listConversations(limit) returns at most limit conversations of the
\* store, each once, ordered by updatedAt from the most recent to the oldest;
\* every stored conversation it omits has an updatedAt no later than that of
\* every conversation it returns; and the store and the conversations in it
\* are as they were before the call.
C33_ListMostRecentFirst ==
  [][\A l \in LimitInputs :
       ListConversations(l) =>
         LET list == outcome'.list
         IN /\ Len(list) <= l
            /\ ListedObjects(list) \subseteq Stored
            /\ \A i, j \in 1..Len(list) :
                 i < j => /\ list[i] # list[j]
                          /\ heap[list[i]].updatedAt >= heap[list[j]].updatedAt
            /\ \A o \in Stored \ ListedObjects(list) :
                 \A i \in 1..Len(list) : heap[o].updatedAt <= heap[list[i]].updatedAt
            /\ conversations' = conversations
            /\ \A o \in Stored : heap'[o] = heap[o]]_vars

\* A list cut to one conversation while the store holds two of different
\* ages: the more recent one was returned.
C33_Witness ==
  /\ outcome.op = "listConversations"
  /\ Len(outcome.list) = 1
  /\ \E o \in Stored : heap[o].updatedAt < heap[outcome.list[1]].updatedAt
\* ---------------------------------------------------------------- C34
\* C34: whenever processMessage (called directly or by askGrimoire) returns
\* successfully for conversation id c, an entry is stored under c and its last
\* message is the assistant message the call returned; so between the call's
\* user append and its reply append the entry was neither removed by
\* cleanupOldConversations or deleteConversation nor replaced by
\* createConversation.
C34_ReplyInStoredConversation ==
  outcome.status = "returned" /\ outcome.op \in {"processMessage", "askGrimoire"}
    => /\ Has(outcome.convId)
       /\ LET messages == heap[conversations[outcome.convId]].messages
          IN /\ messages # <<>>
             /\ messages[Len(messages)].id = outcome.result.messageId
\* ---------------------------------------------------------------- C36
\* C36: waiters of a semaphore are admitted first come, first served.  A
\* caller that has to wait joins the queue behind every caller already in it;
\* a caller that leaves the queue with a slot was at its head, so it had waited
\* longest; and a caller whose acquire gets a slot at once found the queue
\* empty, so it overtook nobody.
C36_FirstComeFirstServed ==
  [][\A t \in 1..MaxRuns :
       LET before == semaphore.runs[t].pc
           after == semaphore'.runs[t].pc
       IN /\ before = "idle" /\ after = "waiting"
               => semaphore'.queue = Append(semaphore.queue, t)
          /\ before = "idle" /\ after = "admitted"
               => semaphore.queue = <<>> /\ semaphore'.queue = <<>>
          /\ before = "waiting" /\ after # "waiting"
               => /\ after = "admitted"
                  /\ semaphore.queue # <<>>
                  /\ t = Head(semaphore.queue)
                  /\ semaphore'.queue = Tail(semaphore.queue)]_vars

\* A caller that queued holds a slot while a caller that came later still
\* waits.
C36_Witness ==
  \E t, u \in 1..MaxRuns :
    /\ semaphore.runs[t].queued /\ semaphore.runs[t].pc = "admitted"
    /\ semaphore.runs[u].pc = "waiting"
\* ---------------------------------------------------------------- C38
\* An askGrimoire call has just settled.
AskSettled(out) == out.op = "askGrimoire" /\ out.status # None

\* C38 as stated: every askGrimoire call creates no conversation when
\* options.conversationId names a stored one and exactly one otherwise, and
\* in both cases makes exactly one processMessage call.
C38_OneConversationOneCall ==
  AskSettled(outcome)
    => /\ outcome.created = (IF outcome.existing THEN 0 ELSE 1)
       /\ outcome.processed = 1

\* C38, amended: when options.conversationId names a stored conversation,
\* askGrimoire creates none and its one processMessage call appends the user
\* message to that conversation in the same run.  Otherwise it calls
\* createConversation once: if that throws 'Model not found', nothing was
\* created, no processMessage call is made and askGrimoire throws that error;
\* else exactly one conversation was created and exactly one processMessage
\* call is made with its id.  askGrimoire returns the response text of that
\* call when it returns and throws its error when it throws.
C38_OneCallUnlessCreateThrows ==
  [][/\ \A t \in UserTexts, key \in Keys, o \in ConvIds, m \in ModelInputs :
          AskGrimoire(t, key, o, m) /\ Has(o)
            => LET k == Len(calls) + 1
               IN /\ conversations' = conversations
                  /\ calls'[k].pc = "generating"
                  /\ calls'[k].conv = conversations[o]
                  /\ heap'[conversations[o]].messages
                       = Append(heap[conversations[o]].messages, UserMessage(k, t))
     /\ AskSettled(outcome')
          => /\ outcome'.existing => outcome'.created = 0 /\ outcome'.processed = 1
             /\ ~outcome'.existing
                  => \/ /\ outcome'.created = 0 /\ outcome'.processed = 0
                        /\ outcome'.status = "threw"
                        /\ outcome'.error = <<"Model not found">>
                     \/ outcome'.created = 1 /\ outcome'.processed = 1
             /\ outcome'.status = "returned"
                  => /\ outcome'.backend.ok
                     /\ outcome'.result.response = outcome'.backend.val
             /\ outcome'.status = "threw" /\ outcome'.processed = 1
                  => outcome'.error \in {<<"Conversation not found">>, outcome'.backend.val}
    ]_vars

\* A second call, made with the id of a stored conversation, has returned its
\* response: it created nothing and the conversation holds both exchanges.
C38_Witness ==
  /\ AskSettled(outcome) /\ outcome.status = "returned" /\ outcome.existing
  /\ outcome.k = 2 /\ outcome.processed = 1
  /\ \E o \in Stored : Len(heap[o].messages) = 4
\* ---------------------------------------------------------------- C37
\* C37: once shutdown() has completed, no timer that an initialize() call
\* made before it had started is still set, and no such timer has fired
\* since, however many initialize() calls there were.
C37_NoSweepAfterShutdown ==
  lifecycle.shutdowns > 0
    => /\ \A h \in lifecycle.timers : h > lifecycle.createdAtShutdown
       /\ lifecycle.fired = 0 \/ lifecycle.fired > lifecycle.createdAtShutdown
\* ---------------------------------------------------------------- C35
\* The call a step of initializeModels has just added.
NewInitCall == modelManager'.calls[Len(modelManager'.calls)]

\* C35: initializeModels is single-flight and idempotent.  At most one
\* attempt is in flight at a time and an attempt calls the local manager's
\* initialize at most once; a call made while an attempt is in flight starts
\* none and is given that attempt's promise, so it settles as the attempt
\* does; once initialized the manager stays initialized, and a call made then
\* returns at once without starting an attempt.
C35_SingleFlight ==
  [][/\ Cardinality(Running(modelManager')) <= 1
     /\ \A a \in DOMAIN modelManager'.attempts :
          modelManager'.attempts[a].initializations <= 1
     /\ modelManager.initialized => modelManager'.initialized
     /\ \A via \in InitCallers :
          InitializeModels(via)
            => /\ \A a \in Running(modelManager) :
                    /\ modelManager'.attempts = modelManager.attempts
                    /\ NewInitCall.promise = a
               /\ modelManager.initialized
                    => /\ modelManager'.attempts = modelManager.attempts
                       /\ NewInitCall.promise = 0
    ]_vars

\* Two overlapping calls shared an attempt that succeeded, and a call made
\* after it returned at once.
C35_Witness ==
  /\ Len(modelManager.calls) = 3 /\ Len(modelManager.attempts) = 1
  /\ modelManager.attempts[1].pc = "fulfilled"
  /\ modelManager.calls[1].promise = 1 /\ modelManager.calls[2].promise = 1
  /\ modelManager.calls[3].promise = 0

\* ---------------------------------------------------------------- C40
\* C40: after an initialization attempt has failed, before or after its
\* first await, the manager is not left holding the failed attempt's promise:
\* initializationPromise is null or the promise of an attempt still in
\* flight, so the next initializeModels call starts a fresh attempt.
C40_NoStalePromise ==
  modelManager.initializationPromise # 0
    => modelManager.initializationPromise \in Running(modelManager)
\* ---------------------------------------------------------------- C39
\* An attempt failed with a 4xx status other than 408 and 429.
ClientError(out) ==
  /\ out # ResponseData
  /\ out.statusCode >= 400 /\ out.statusCode < 500
  /\ out.statusCode \notin {408, 429}

\* The attempts and waits follow the retry schedule: at most maxRetries
\* attempts, a wait of retryDelay * 2^(i-1) after failed attempt i and before
\* attempt i+1, no wait after the final attempt, and on failure the error of
\* the last attempt is thrown.
OnSchedule ==
  /\ Len(httpRequest.attempts) <= httpRequest.maxRetries
  /\ Len(httpRequest.waits)
       = (IF httpRequest.pc = "waiting" THEN Len(httpRequest.attempts)
          ELSE IF httpRequest.pc = "idle" THEN 0
          ELSE IF httpRequest.pc = "attempting" THEN Len(httpRequest.attempts)
          ELSE Len(httpRequest.attempts) - 1)
  /\ \A i \in 1..Len(httpRequest.waits) :
       httpRequest.waits[i] = httpRequest.retryDelay * 2^(i - 1)
  /\ httpRequest.pc = "threw"
       => httpRequest.result = httpRequest.attempts[Len(httpRequest.attempts)]

\* C39: requestWithRetry makes at most maxRetries attempts, makes no further
\* attempt after an error with a 4xx status other than 408 or 429, retries
\* every other error with a wait of retryDelay * 2^(attempt-1) between
\* attempts, never waits after the final attempt, and on failure throws the
\* error of the last attempt.
C39_RetryPolicy ==
  /\ OnSchedule
  /\ \A i \in 1..Len(httpRequest.attempts) :
       ClientError(httpRequest.attempts[i])
         => i = Len(httpRequest.attempts) /\ httpRequest.pc = "threw"
====
